---- MODULE Spec2Model ----
(***************************************************************************)
(* Model of monitor-score: the scoring engine of src/app/page.tsx          *)
(* (calculateScore and its helpers), the editing handlers of the page      *)
(* (toggleTool, toggleToolCapability, toggleScenario, deleteTool,          *)
(* updateSystem) and the save-config / delete-tool endpoints working on    *)
(* the Supabase tables.                                                    *)
(*                                                                         *)
(* Numbers.  Points are integers in hundredths of a point (Pts(45) is 45   *)
(* points), so that the one-decimal rounding of the code is a real         *)
(* operation.  A rate is an exact fraction [num, den] with den > 0 and is  *)
(* compared by cross multiplication.  An optional value (undefined in the  *)
(* code) is the empty sequence, a present value v is <<v>>.                *)
(* The id lists of the code (selectedToolIds, a tool's capability list,    *)
(* checkedScenarioIds) are sets: the handlers never add an id twice.       *)
(*                                                                         *)
(* Store.  Every awaited statement of an endpoint is one step, so that two *)
(* requests interleave statement by statement.  The tables systems, tools  *)
(* and tool_scenarios have the primary key id; no other constraint of the  *)
(* database is assumed.  Timestamps are the values of a clock that ticks   *)
(* with every save-config request.                                         *)
(***************************************************************************)
EXTENDS Integers, Sequences, FiniteSets, TLC

VARIABLES
  systems,          \* useState systems: system id -> SystemData
  tools,            \* useState tools: tool id -> MonitorTool
  activeSystemId,   \* useState activeSystemId
  rules,            \* ruleData, the imported rule table (lookups of ruleById)
  scores,           \* useMemo scores = calculateScore(activeSystem, tools)
  dirtyInfoSystems,      \* useState dirtyInfoSystems
  dirtyCoverageSystems,  \* useState dirtyCoverageSystems
  dirtyTools,            \* useState dirtyTools
  never,            \* history: never[t][s] is system s as edited by the same
                    \* handler calls except those that concern tool t
  deletedIds,       \* history: the tool ids deleteTool was called with
  dbSystems,        \* table systems: id -> row
  dbTools,          \* table tools: id -> row
  dbToolScenarios,  \* table tool_scenarios: id -> row
  dbSystemTools,    \* table system_tools: set of rows
  dbSystemScenarios,\* table system_scenarios: set of rows
  dbScores,         \* table scores: set of rows
  dbTasks,          \* table tasks: the ids of its rows
  clock,            \* the server's clock (new Date())
  issued,           \* how many ids the store has generated
  everScenarioOf,   \* history: the pairs <<scenario id, tool id>> ever stored
  reqs,             \* the requests: their body, position in the handler, locals
                    \* and response
  outbox,           \* the requests the page has sent
  exportFile,       \* the file handleExport has written, if any
  saving,           \* useState saving
  progressText,     \* useState progressText
  conflictMsg,      \* useState conflictMsg
  batch             \* the running saveSystemsBatch call: its position and locals

uiVars == <<systems, tools, activeSystemId, rules, scores,
            dirtyInfoSystems, dirtyCoverageSystems, dirtyTools>>
histVars == <<never, deletedIds>>
tables == <<dbSystems, dbTools, dbToolScenarios, dbSystemTools, dbSystemScenarios>>
roundVars == <<dbScores, dbTasks>>
dbVars == <<tables, roundVars, clock, issued, everScenarioOf, reqs>>
outVars == <<outbox, exportFile>>
batchVars == <<saving, progressText, conflictMsg, batch>>
vars == <<uiVars, histVars, dbVars, outVars, batchVars>>

----------------------------------------------------------------------------
(* Optional values and arithmetic helpers *)

None == <<>>
Some(v) == <<v>>
Has(o) == o # <<>>
OrElse(o, d) == IF o = <<>> THEN d ELSE o[1]

Pts(n) == n * 100

Max(a, b) == IF a >= b THEN a ELSE b
Min(a, b) == IF a <= b THEN a ELSE b

\* floor(n / d) for d > 0 and any integer n
FloorDiv(n, d) == IF n >= 0 THEN n \div d ELSE -((-n + d - 1) \div d)

\* Math.round(x * 10) / 10 for x = n / d points given as n hundredths over d
Round1Frac(n, d) == FloorDiv(2 * n + 10 * d, 20 * d) * 10
Round1(x) == Round1Frac(x, 1)

Rate(n, d) == [num |-> n, den |-> d]
\* r >= p / q
RateGE(r, p, q) == r.num * q >= p * r.den
Clamp01(r) == IF r.num < 0 THEN Rate(0, 1) ELSE IF r.num > r.den THEN Rate(1, 1) ELSE r

RECURSIVE SumOver(_, _)
SumOver(S, f) == IF S = {} THEN 0
                 ELSE LET x == CHOOSE y \in S : TRUE IN f[x] + SumOver(S \ {x}, f)

----------------------------------------------------------------------------
(* Constants of page.tsx *)

MANDATORY_CAPS == <<"host", "process", "network", "db", "trans">>

Levels == {"perfect", "high", "medium", "low"}

\* the rule table with no rule at all: every lookup of ruleById misses
NoRules ==
  [stdBase |-> None, stdGe1 |-> None, stdGe07 |-> None, stdGe05 |-> None,
   stdGe03 |-> None, stdLt03 |-> None, docPer |-> None, docCap |-> None,
   opsTrueScore |-> None, dataTruePer |-> None, dataItemPer |-> None,
   dataItemCap |-> None, dataFalseScore |-> None, respPer |-> None,
   respCap |-> None, rectPer |-> None, rectCap |-> None]

createDefaultSystem(id) ==
  [id |-> id, updatedAt |-> None, isSelfBuilt |-> FALSE,
   serverTotal |-> 0, serverCovered |-> 0, appTotal |-> 0, appCovered |-> 0,
   selectedToolIds |-> {}, toolCapabilities |-> [t \in {} |-> {}], checkedScenarioIds |-> {},
   documentedItems |-> 0, accuracy |-> "high", discoveryRate |-> "high",
   opsLeadConfigured |-> "full", dataMonitorConfigured |-> "full",
   missingMonitorItems |-> 0, lateResponseCount |-> 0, overdueCount |-> 0,
   alertTotal |-> Some(0), falseAlertTotal |-> Some(0),
   faultTotal |-> Some(0), faultDetectedTotal |-> Some(0),
   accuracyRate |-> None, discoveryRatePct |-> None]

----------------------------------------------------------------------------
(* The scoring engine *)

\* data.toolCapabilities[tid] || []
capsOf(data, tid) ==
  IF tid \in DOMAIN data.toolCapabilities THEN data.toolCapabilities[tid] ELSE {}

deriveAccuracyRate(data) ==
  IF Has(data.accuracyRate) THEN data.accuracyRate[1]
  ELSE IF Has(data.alertTotal) THEN
    LET total == data.alertTotal[1]
        falseCount == Max(0, OrElse(data.falseAlertTotal, 0))
    IN IF total <= 0 THEN Rate(0, 1) ELSE Clamp01(Rate(total - falseCount, total))
  ELSE CASE data.accuracy = "perfect" -> Rate(995, 1000)
         [] data.accuracy = "high" -> Rate(96, 100)
         [] data.accuracy = "medium" -> Rate(92, 100)
         [] OTHER -> Rate(89, 100)

\* deriveDiscoveryRate that gives 0 for no faults, as the accuracy rate does
\* for no alerts
deriveDiscoveryRate_zero(data) ==
  IF Has(data.discoveryRatePct) THEN data.discoveryRatePct[1]
  ELSE IF Has(data.faultTotal) /\ data.faultTotal[1] > 0 THEN
    LET detected == Max(0, OrElse(data.faultDetectedTotal, 0))
    IN Clamp01(Rate(detected, data.faultTotal[1]))
  ELSE IF Has(data.faultTotal) /\ data.faultTotal[1] = 0 THEN Rate(0, 1)
  ELSE CASE data.discoveryRate = "perfect" -> Rate(995, 1000)
         [] data.discoveryRate = "high" -> Rate(96, 100)
         [] data.discoveryRate = "medium" -> Rate(9, 10)
         [] OTHER -> Rate(8, 10)

deriveDiscoveryRate(data) ==
  IF Has(data.discoveryRatePct) THEN data.discoveryRatePct[1]
  ELSE IF Has(data.faultTotal) /\ data.faultTotal[1] > 0 THEN
    LET detected == Max(0, OrElse(data.faultDetectedTotal, 0))
    IN Clamp01(Rate(detected, data.faultTotal[1]))
  ELSE IF Has(data.faultTotal) /\ data.faultTotal[1] = 0 THEN Rate(1, 1)
  ELSE CASE data.discoveryRate = "perfect" -> Rate(995, 1000)
         [] data.discoveryRate = "high" -> Rate(96, 100)
         [] data.discoveryRate = "medium" -> Rate(9, 10)
         [] OTHER -> Rate(8, 10)

deriveCoverageLevel(covered, total) ==
  IF total <= 0 THEN "low"
  ELSE IF covered * 100 >= 95 * total THEN "full"
  ELSE IF covered * 10 >= 7 * total THEN "basic"
  ELSE IF covered * 10 >= 5 * total THEN "partial"
  ELSE "low"

levelDeduct(level) ==
  CASE level = "full" -> Pts(0)
    [] level = "basic" -> Pts(3)
    [] level = "partial" -> Pts(7)
    [] OTHER -> Pts(10)

\* rateScore with the first tier strict
rateScore_strict(rate) ==
  IF ~RateGE(Rate(95, 100), rate.num, rate.den) THEN Pts(10)
  ELSE IF RateGE(rate, 85, 100) THEN Pts(7)
  ELSE IF RateGE(rate, 7, 10) THEN Pts(3)
  ELSE Pts(0)

\* the accuracy / discovery point tiers
rateScore(rate) ==
  IF RateGE(rate, 95, 100) THEN Pts(10)
  ELSE IF RateGE(rate, 85, 100) THEN Pts(7)
  ELSE IF RateGE(rate, 7, 10) THEN Pts(3)
  ELSE Pts(0)

\* selectedWithCaps over every tool with recorded capabilities, selected or not
selectedWithCaps_recorded(data) ==
  {tid \in DOMAIN data.toolCapabilities : capsOf(data, tid) # {}}

selectedWithCaps(data) == {tid \in data.selectedToolIds : capsOf(data, tid) # {}}

coveredCaps(data) == UNION {capsOf(data, tid) : tid \in selectedWithCaps(data)}

missingCapsOf(data) == SelectSeq(MANDATORY_CAPS, LAMBDA c : c \notin coveredCaps(data))

\* the scenarios of a tool in one category
relevantOf(tool, cap) == {s \in tool.scenarios : s.category = cap}

\* capPairs that keeps the pairs without scenarios
capPairs_all(data, tls) ==
  {p \in selectedWithCaps(data) \X UNION {capsOf(data, t) : t \in selectedWithCaps(data)} :
     /\ p[1] \in DOMAIN tls
     /\ p[2] \in capsOf(data, p[1])}

\* the (tool, capability) pairs that take part in the standardization average
capPairs(data, tls) ==
  {p \in selectedWithCaps(data) \X UNION {capsOf(data, t) : t \in selectedWithCaps(data)} :
     /\ p[1] \in DOMAIN tls
     /\ p[2] \in capsOf(data, p[1])
     /\ relevantOf(tls[p[1]], p[2]) # {}}

\* the deduction of a pair with `checked` of `n` scenarios checked: the chain
\* of ?? over the tiers of the standardization rule
stdDeduct(rt, checked, n) ==
  IF checked >= n /\ Has(rt.stdGe1) THEN rt.stdGe1[1]
  ELSE IF checked * 10 >= 7 * n /\ Has(rt.stdGe07) THEN rt.stdGe07[1]
  ELSE IF checked * 10 >= 5 * n /\ Has(rt.stdGe05) THEN rt.stdGe05[1]
  ELSE IF checked * 10 >= 3 * n /\ Has(rt.stdGe03) THEN rt.stdGe03[1]
  ELSE IF Has(rt.stdLt03) THEN rt.stdLt03[1]
  ELSE Pts(10)

capScore(data, tls, rt, p) ==
  LET relevant == relevantOf(tls[p[1]], p[2])
      checked == Cardinality({s \in relevant : s.id \in data.checkedScenarioIds})
  IN Max(0, OrElse(rt.stdBase, Pts(10)) - stdDeduct(rt, checked, Cardinality(relevant)))

\* score1_2 as the fraction sum / count (0 / 1 when no pair takes part)
score1_2(data, tls, rt) ==
  LET P == capPairs(data, tls)
  IN IF P = {} THEN Rate(0, 1)
     ELSE Rate(SumOver(P, [p \in P |-> capScore(data, tls, rt, p)]), Cardinality(P))

\* score1_3 without the cap
score1_3_uncapped(data, rt) ==
  Max(0, data.documentedItems * OrElse(rt.docPer, Pts(1)))

score1_3(data, rt) ==
  Min(OrElse(rt.docCap, Pts(5)), Max(0, data.documentedItems * OrElse(rt.docPer, Pts(1))))

pkgLevel(missing) ==
  IF missing = 0 THEN "full"
  ELSE IF (5 - missing) * 10 >= 7 * 5 THEN "basic"
  ELSE IF (5 - missing) * 10 >= 5 * 5 THEN "partial"
  ELSE "low"

\* score1 without the deduction per missing capability
score1_tierOnly(data) ==
  LET missing == Len(missingCapsOf(data))
  IN Pts(45) - levelDeduct(pkgLevel(missing))
     - levelDeduct(deriveCoverageLevel(data.serverCovered, data.serverTotal))
     - levelDeduct(deriveCoverageLevel(data.appCovered, data.appTotal))
     + (IF data.isSelfBuilt THEN Pts(5) ELSE 0)

score1(data) ==
  LET missing == Len(missingCapsOf(data))
  IN Pts(45) - levelDeduct(pkgLevel(missing)) - Pts(10) * missing
     - levelDeduct(deriveCoverageLevel(data.serverCovered, data.serverTotal))
     - levelDeduct(deriveCoverageLevel(data.appCovered, data.appTotal))
     + (IF data.isSelfBuilt THEN Pts(5) ELSE 0)

part1Of(data, tls, rt) ==
  LET avg == score1_2(data, tls, rt)
      fixed == score1(data) + score1_3(data, rt)
  IN Max(0, Min(Pts(60), Round1Frac(fixed * avg.den + avg.num, avg.den)))

part2Of(data) == Max(0, rateScore(deriveAccuracyRate(data)) + rateScore(deriveDiscoveryRate(data)))

opsLeadScore(data, rt) ==
  OrElse(rt.opsTrueScore, IF data.opsLeadConfigured = "full" THEN Pts(5) ELSE 0)

dataMonitorScore(data, rt) ==
  CASE data.dataMonitorConfigured = "full" ->
         IF Has(rt.dataTruePer) /\ rt.dataTruePer[1] # 0
         THEN Max(0, Pts(5) - Min(OrElse(rt.dataItemCap, Pts(5)),
                                  OrElse(rt.dataItemPer, Pts(1)) * data.missingMonitorItems))
         ELSE Pts(5) - Pts(1) * data.missingMonitorItems
    [] data.dataMonitorConfigured = "missing" ->
         Max(0, Pts(5) - Min(OrElse(rt.dataItemCap, Pts(5)), Pts(1) * data.missingMonitorItems))
    [] data.dataMonitorConfigured = "na" -> OrElse(rt.dataFalseScore, 0)
    [] OTHER -> 0

\* part3 without the floor at 0
part3Of_unfloored(data, rt) == opsLeadScore(data, rt) + dataMonitorScore(data, rt)

part3Of(data, rt) == Max(0, opsLeadScore(data, rt) + dataMonitorScore(data, rt))

part4Of(data, rt) ==
  Max(0,
      Max(0, Pts(5) - Min(OrElse(rt.respCap, Pts(5)),
                          data.lateResponseCount * OrElse(rt.respPer, 250)))
      + Max(0, Pts(5) - Min(OrElse(rt.rectCap, Pts(5)),
                            data.overdueCount * OrElse(rt.rectPer, Pts(1)))))

calculateScore(data, tls, rt) ==
  LET p1 == part1Of(data, tls, rt)
      p2 == part2Of(data)
      p3 == part3Of(data, rt)
      p4 == part4Of(data, rt)
      acc == deriveAccuracyRate(data)
      disc == deriveDiscoveryRate(data)
  IN [part1 |-> p1, part2 |-> p2, part3 |-> p3, part4 |-> p4,
      total |-> Max(0, Round1(p1 + p2 + p3 + p4)),
      missingCaps |-> missingCapsOf(data),
      packageLevel |-> pkgLevel(Len(missingCapsOf(data))),
      accuracyRatePct |-> Rate(acc.num * 100, acc.den),
      discoveryRatePct |-> Rate(disc.num * 100, disc.den),
      accuracyScore |-> rateScore(acc),
      discoveryScore |-> rateScore(disc)]

\* what a read of a property of undefined raises
TypeError == [threw |-> "TypeError"]

\* the inputs on which calculateScore raises: data.toolCapabilities[tid] in
\* the filter over the selected ids, tool.scenarios.filter for a resolved
\* selected tool with a capability, data.checkedScenarioIds.includes for a
\* pair that has scenarios.  A field that the object does not have is a
\* field that the record does not have.
calculateScoreThrows(data, tls) ==
  LET sel == IF "selectedToolIds" \in DOMAIN data THEN data.selectedToolIds ELSE {}
  IN IF "toolCapabilities" \notin DOMAIN data THEN sel # {}
     ELSE LET resolved == {tid \in sel : capsOf(data, tid) # {}} \cap DOMAIN tls
          IN \/ \E t \in resolved : "scenarios" \notin DOMAIN tls[t]
             \/ /\ "checkedScenarioIds" \notin DOMAIN data
                /\ \E t \in resolved : \E c \in capsOf(data, t) : relevantOf(tls[t], c) # {}

\* useMemo(() => calculateScore(activeSystem, tools)): the result, or the
\* error that the call raises
scoresMemo(data, tls, rt) ==
  IF calculateScoreThrows(data, tls) THEN TypeError ELSE calculateScore(data, tls, rt)

----------------------------------------------------------------------------
(* Bounded inputs of the scoring engine *)

MaxDocItems == 6
BigCount == 1000

\* T1 has four host scenarios, T2 three db scenarios and none for trans;
\* TX and sx are ids that resolve to nothing in the catalog
Catalog ==
  [t \in {"T1", "T2"} |->
     IF t = "T1"
     THEN [name |-> "n1", defaultCapabilities |-> {"host", "process", "network"},
           scenarios |-> {[id |-> "h1", category |-> "host"], [id |-> "h2", category |-> "host"],
                          [id |-> "h3", category |-> "host"], [id |-> "h4", category |-> "host"]}]
     ELSE [name |-> "n2", defaultCapabilities |-> {"db", "trans"},
           scenarios |-> {[id |-> "d1", category |-> "db"], [id |-> "d2", category |-> "db"],
                          [id |-> "d3", category |-> "db"]}]]

TypicalRules ==
  [stdBase |-> Some(Pts(10)), stdGe1 |-> Some(0), stdGe07 |-> Some(Pts(3)),
   stdGe05 |-> Some(Pts(5)), stdGe03 |-> Some(Pts(7)), stdLt03 |-> Some(Pts(10)),
   docPer |-> Some(Pts(1)), docCap |-> Some(Pts(5)),
   opsTrueScore |-> Some(Pts(5)), dataTruePer |-> Some(Pts(1)), dataItemPer |-> None,
   dataItemCap |-> None, dataFalseScore |-> Some(Pts(5)), respPer |-> Some(250),
   respCap |-> Some(Pts(5)), rectPer |-> Some(Pts(1)), rectCap |-> Some(Pts(5))]

\* fractional figures, so that the roundings act
FineRules ==
  [stdBase |-> Some(Pts(8)), stdGe1 |-> Some(0), stdGe07 |-> Some(125),
   stdGe05 |-> None, stdGe03 |-> Some(Pts(6)), stdLt03 |-> None,
   docPer |-> Some(75), docCap |-> Some(Pts(2)),
   opsTrueScore |-> None, dataTruePer |-> Some(0), dataItemPer |-> Some(150),
   dataItemCap |-> Some(Pts(4)), dataFalseScore |-> None, respPer |-> Some(33),
   respCap |-> Some(Pts(3)), rectPer |-> Some(125), rectCap |-> Some(Pts(7))]

\* only the tier below 0.3 is defined
SparseRules ==
  [NoRules EXCEPT !.stdLt03 = Some(Pts(4)), !.dataTruePer = Some(Pts(2)),
                  !.dataItemPer = Some(Pts(2)), !.docCap = Some(Pts(3))]

RuleTables == {NoRules, TypicalRules, FineRules, SparseRules}

HostIds(k) == {<<"h1", "h2", "h3", "h4">>[i] : i \in 1..k}
DbIds(k) == {<<"d1", "d2", "d3">>[i] : i \in 1..k}

CapsRecord(c1, c2, cx) ==
  [t \in {"T1", "T2"} \cup (IF Has(cx) THEN {"TX"} ELSE {}) |->
     IF t = "T1" THEN c1 ELSE IF t = "T2" THEN c2 ELSE cx[1]]

\* selections and capability grants, with few checked sets
SelectionInputs ==
  {[selectedToolIds |-> sel, toolCapabilities |-> CapsRecord(c1, c2, cx),
    checkedScenarioIds |-> chk] :
     sel \in SUBSET {"T1", "T2", "TX"},
     c1 \in {{}, {"host"}, {"host", "process", "network"}},
     c2 \in {{}, {"db"}, {"db", "trans"}},
     cx \in {None, Some({"trans"})},
     chk \in {{}, HostIds(4) \cup DbIds(3), HostIds(2) \cup {"sx"}}}

\* checked scenarios, with both tools selected
CheckedInputs ==
  {[selectedToolIds |-> {"T1", "T2"},
    toolCapabilities |-> CapsRecord({"host", "process", "network"}, {"db", "trans"}, None),
    checkedScenarioIds |-> HostIds(h) \cup DbIds(d) \cup sx] :
     h \in 0..4, d \in 0..3, sx \in {{}, {"sx"}}}

ToolInputs == SelectionInputs \cup CheckedInputs

CoverageInputs ==
  {[isSelfBuilt |-> b, serverTotal |-> s[1], serverCovered |-> s[2],
    appTotal |-> a[1], appCovered |-> a[2]] :
     b \in BOOLEAN,
     s \in {<<0, 0>>, <<4, 4>>, <<4, 3>>, <<4, 2>>, <<4, 1>>, <<-1, 2>>, <<BigCount, 950>>},
     a \in {<<0, 0>>, <<1, 1>>, <<2, 1>>, <<1, BigCount>>}}

ExplicitRates == {Rate(95, 100), Rate(949, 1000), Rate(85, 100), Rate(699, 1000),
                  Rate(0, 1), Rate(12, 10)}

\* an explicit rate, or totals, or neither
RateInputs ==
  {[rate |-> Some(r), total |-> t, part |-> Some(1), level |-> "low"] :
      r \in ExplicitRates, t \in {None, Some(0), Some(20)}}
  \cup {[rate |-> None, total |-> Some(t), part |-> p, level |-> "low"] :
      t \in {0, 20, -5, BigCount}, p \in {None, Some(0), Some(1), Some(3), Some(6), Some(7),
                                          Some(10), Some(14), Some(19), Some(20), Some(25),
                                          Some(-3), Some(50), Some(151), Some(BigCount)}}
  \cup {[rate |-> None, total |-> None, part |-> p, level |-> l] :
      p \in {None, Some(1)}, l \in Levels}

AlertInputs ==
  {[opsLeadConfigured |-> o, dataMonitorConfigured |-> m, missingMonitorItems |-> n] :
     o \in {"full", "missing"}, m \in {"full", "missing", "na"},
     n \in {-2, 0, 1, 2, 5, 7, BigCount}}

OpsInputs ==
  {[lateResponseCount |-> l, overdueCount |-> o] :
     l \in {-1, 0, 1, 2, 3, BigCount}, o \in {-2, 0, 1, 3, 5, 9}}

MkData(t, c, a, d, n, o, doc) ==
  [createDefaultSystem("S1") EXCEPT
     !.selectedToolIds = t.selectedToolIds, !.toolCapabilities = t.toolCapabilities,
     !.checkedScenarioIds = t.checkedScenarioIds,
     !.isSelfBuilt = c.isSelfBuilt, !.serverTotal = c.serverTotal,
     !.serverCovered = c.serverCovered, !.appTotal = c.appTotal, !.appCovered = c.appCovered,
     !.accuracyRate = a.rate, !.alertTotal = a.total, !.falseAlertTotal = a.part,
     !.accuracy = a.level,
     !.discoveryRatePct = d.rate, !.faultTotal = d.total, !.faultDetectedTotal = d.part,
     !.discoveryRate = d.level,
     !.opsLeadConfigured = n.opsLeadConfigured,
     !.dataMonitorConfigured = n.dataMonitorConfigured,
     !.missingMonitorItems = n.missingMonitorItems,
     !.lateResponseCount = o.lateResponseCount, !.overdueCount = o.overdueCount,
     !.documentedItems = doc]

\* what the groups that are not being swept are set to
Presets ==
  {createDefaultSystem("S1"),
   MkData([selectedToolIds |-> {"T1", "T2"},
           toolCapabilities |-> CapsRecord({"host", "process", "network"}, {"db", "trans"}, None),
           checkedScenarioIds |-> HostIds(4) \cup DbIds(3)],
          [isSelfBuilt |-> TRUE, serverTotal |-> 4, serverCovered |-> 4,
           appTotal |-> 1, appCovered |-> 1],
          [rate |-> None, total |-> Some(20), part |-> Some(1), level |-> "high"],
          [rate |-> None, total |-> Some(20), part |-> Some(20), level |-> "high"],
          [opsLeadConfigured |-> "full", dataMonitorConfigured |-> "full",
           missingMonitorItems |-> 0],
          [lateResponseCount |-> 0, overdueCount |-> 0], 0),
   MkData([selectedToolIds |-> {"T1", "T2"},
           toolCapabilities |-> CapsRecord({"host", "process", "network"}, {"db"}, None),
           checkedScenarioIds |-> HostIds(3) \cup DbIds(1)],
          [isSelfBuilt |-> FALSE, serverTotal |-> 4, serverCovered |-> 3,
           appTotal |-> 2, appCovered |-> 1],
          [rate |-> None, total |-> Some(20), part |-> Some(3), level |-> "high"],
          [rate |-> None, total |-> Some(20), part |-> Some(14), level |-> "high"],
          [opsLeadConfigured |-> "missing", dataMonitorConfigured |-> "missing",
           missingMonitorItems |-> 2],
          [lateResponseCount |-> 1, overdueCount |-> 3], 0)}

\* every group is swept over its whole domain while the others take a preset
ScoreInputs ==
  {[p EXCEPT !.selectedToolIds = t.selectedToolIds, !.toolCapabilities = t.toolCapabilities,
             !.checkedScenarioIds = t.checkedScenarioIds] : p \in Presets, t \in ToolInputs}
  \cup {[p EXCEPT !.isSelfBuilt = c.isSelfBuilt, !.serverTotal = c.serverTotal,
                  !.serverCovered = c.serverCovered, !.appTotal = c.appTotal,
                  !.appCovered = c.appCovered] : p \in Presets, c \in CoverageInputs}
  \cup {[p EXCEPT !.accuracyRate = a.rate, !.alertTotal = a.total, !.falseAlertTotal = a.part,
                  !.accuracy = a.level] : p \in Presets, a \in RateInputs}
  \cup {[p EXCEPT !.discoveryRatePct = d.rate, !.faultTotal = d.total,
                  !.faultDetectedTotal = d.part, !.discoveryRate = d.level] :
           p \in Presets, d \in RateInputs}
  \cup {[p EXCEPT !.opsLeadConfigured = n.opsLeadConfigured,
                  !.dataMonitorConfigured = n.dataMonitorConfigured,
                  !.missingMonitorItems = n.missingMonitorItems] : p \in Presets, n \in AlertInputs}
  \cup {[p EXCEPT !.lateResponseCount = o.lateResponseCount,
                  !.overdueCount = o.overdueCount] : p \in Presets, o \in OpsInputs}

----------------------------------------------------------------------------
(* The page: state and handlers *)

\* no store and no request: the page alone
NoStore ==
  /\ dbSystems = [i \in {} |-> {}] /\ dbTools = [i \in {} |-> {}]
  /\ dbToolScenarios = [i \in {} |-> {}]
  /\ dbSystemTools = {} /\ dbSystemScenarios = {}
  /\ dbScores = {} /\ dbTasks = {}
  /\ clock = 0 /\ issued = 0 /\ everScenarioOf = {}
  /\ reqs = [r \in {} |-> {}]

\* no saveSystemsBatch call is running: saving and the two texts as useState
\* initialises them
IdleBatch == [pc |-> "idle"]

NoBatch == saving = FALSE /\ progressText = "" /\ conflictMsg = "" /\ batch = IdleBatch

\* useState activeTaskId: the page stays in the task it has loaded
activeTaskId == "k1"

\* systems.find(s => s.id === activeSystemId) || systems[0] || createDefaultSystem()
activeSystem ==
  IF activeSystemId \in DOMAIN systems THEN systems[activeSystemId]
  ELSE IF DOMAIN systems # {} THEN systems[CHOOSE s \in DOMAIN systems : TRUE]
  ELSE createDefaultSystem("sys_default")

\* setSystems(prev => prev.map(s => s.id === activeSystemId ? {...s, ...updates} : s)),
\* markInfoDirty, and the recomputation of the memoised scores
updateDocumentedItems(v) ==
  /\ activeSystemId \in DOMAIN systems
  /\ systems[activeSystemId].documentedItems # v
  /\ systems' = [systems EXCEPT ![activeSystemId].documentedItems = v]
  /\ dirtyInfoSystems' = dirtyInfoSystems \cup {activeSystemId}
  /\ scores' = scoresMemo(systems'[activeSystemId], tools, rules)
  /\ UNCHANGED <<tools, activeSystemId, rules, dirtyCoverageSystems, dirtyTools, histVars,
                 dbVars, outVars, batchVars>>

InitScore ==
  /\ \E d \in ScoreInputs : systems = [s \in {"S1"} |-> d]
  /\ tools = Catalog
  /\ activeSystemId = "S1"
  /\ rules \in RuleTables
  /\ scores = calculateScore(systems[activeSystemId], tools, rules)
  /\ dirtyInfoSystems = {} /\ dirtyCoverageSystems = {} /\ dirtyTools = FALSE
  /\ never = [t \in {} |-> {}] /\ deletedIds = {}
  /\ NoStore /\ outbox = {} /\ exportFile = <<>> /\ NoBatch

NextScore == \E v \in -1..MaxDocItems : updateDocumentedItems(v)

SpecScore == InitScore /\ [][NextScore]_vars

\* a record without one of its fields
Without(rec, f) == [k \in DOMAIN rec \ {f} |-> rec[k]]

\* systems that lack toolCapabilities, checkedScenarioIds or both
PartialInputs ==
  LET base == Presets \cup
              {[p EXCEPT !.selectedToolIds = t.selectedToolIds,
                         !.toolCapabilities = t.toolCapabilities,
                         !.checkedScenarioIds = t.checkedScenarioIds] :
                 p \in Presets, t \in CheckedInputs}
  IN base \cup {Without(d, "toolCapabilities") : d \in base}
          \cup {Without(d, "checkedScenarioIds") : d \in base}
          \cup {Without(Without(d, "toolCapabilities"), "checkedScenarioIds") : d \in base}

\* the catalog with T1 lacking its scenarios list
BareCatalog ==
  [t \in DOMAIN Catalog |-> IF t = "T1" THEN Without(Catalog[t], "scenarios") ELSE Catalog[t]]

\* the page over systems and tools that lack fields
InitPartial ==
  /\ \E d \in PartialInputs : systems = [s \in {"S1"} |-> d]
  /\ tools \in {Catalog, BareCatalog}
  /\ activeSystemId = "S1"
  /\ rules \in RuleTables
  /\ scores = scoresMemo(systems[activeSystemId], tools, rules)
  /\ dirtyInfoSystems = {} /\ dirtyCoverageSystems = {} /\ dirtyTools = FALSE
  /\ never = [t \in {} |-> {}] /\ deletedIds = {}
  /\ NoStore /\ outbox = {} /\ exportFile = <<>> /\ NoBatch

SpecPartial == InitPartial /\ [][NextScore]_vars

----------------------------------------------------------------------------
(* The tool handlers of the page *)

\* what toggleTool does to the active system
toggleToolSys(s, tls, toolId) ==
  IF toolId \in s.selectedToolIds
  THEN [s EXCEPT !.selectedToolIds = @ \ {toolId},
                 !.toolCapabilities =
                    [t \in DOMAIN @ \cup {toolId} |-> IF t = toolId THEN {} ELSE @[t]]]
  ELSE [s EXCEPT !.selectedToolIds = @ \cup {toolId},
                 !.toolCapabilities =
                    [t \in DOMAIN @ \cup {toolId} |->
                       IF t = toolId
                       THEN (IF toolId \in DOMAIN tls THEN tls[toolId].defaultCapabilities ELSE {})
                       ELSE @[t]]]

\* what toggleToolCapability does to the active system
toggleToolCapabilitySys(s, toolId, cap) ==
  LET currentCaps == capsOf(s, toolId)
      newCaps == IF cap \in currentCaps THEN currentCaps \ {cap} ELSE currentCaps \cup {cap}
  IN [s EXCEPT !.toolCapabilities =
                  [t \in DOMAIN @ \cup {toolId} |-> IF t = toolId THEN newCaps ELSE @[t]]]

\* what toggleScenario does to the active system
toggleScenarioSys(s, id) ==
  [s EXCEPT !.checkedScenarioIds = IF id \in @ THEN @ \ {id} ELSE @ \cup {id}]

\* deleteTool without the clean-up of the systems
deleteToolSys_keep(s, id) == s

\* what deleteTool does to every system
deleteToolSys(s, id) ==
  [s EXCEPT !.selectedToolIds = @ \ {id},
            !.toolCapabilities = [t \in DOMAIN @ \ {id} |-> @[t]]]

\* the scenarios the scoring page lists for the active system
shownScenarios(s, tls) ==
  UNION {{sc \in tls[t].scenarios : sc.category \in capsOf(s, t)} :
           t \in s.selectedToolIds \cap DOMAIN tls}

\* the tool that owns a scenario id
ownerOf(tls, id) == {t \in DOMAIN tls : \E sc \in tls[t].scenarios : sc.id = id}

Recalc == scores' = scoresMemo(systems'[activeSystemId'], tools', rules')

setActiveSystemId(id) ==
  /\ id \in DOMAIN systems
  /\ id # activeSystemId
  /\ activeSystemId' = id
  /\ UNCHANGED <<systems, tools, rules, dirtyInfoSystems, dirtyCoverageSystems, dirtyTools,
                 histVars, dbVars, outVars, batchVars>>
  /\ Recalc

toggleTool(toolId) ==
  /\ activeSystemId \in DOMAIN systems
  /\ toolId \in DOMAIN tools
  /\ systems' = [systems EXCEPT ![activeSystemId] = toggleToolSys(@, tools, toolId)]
  /\ dirtyCoverageSystems' = dirtyCoverageSystems \cup {activeSystemId}
  /\ never' = [t \in DOMAIN never |->
                 IF t = toolId THEN never[t]
                 ELSE [never[t] EXCEPT ![activeSystemId] = toggleToolSys(@, tools, toolId)]]
  /\ UNCHANGED <<tools, activeSystemId, rules, dirtyInfoSystems, dirtyTools, deletedIds,
                 dbVars, outVars, batchVars>>
  /\ Recalc

toggleToolCapability(toolId, cap) ==
  /\ activeSystemId \in DOMAIN systems
  /\ toolId \in DOMAIN tools
  /\ toolId \in systems[activeSystemId].selectedToolIds
  /\ cap \in tools[toolId].defaultCapabilities
  /\ systems' = [systems EXCEPT ![activeSystemId] = toggleToolCapabilitySys(@, toolId, cap)]
  /\ dirtyCoverageSystems' = dirtyCoverageSystems \cup {activeSystemId}
  /\ never' = [t \in DOMAIN never |->
                 IF t = toolId THEN never[t]
                 ELSE [never[t] EXCEPT ![activeSystemId] = toggleToolCapabilitySys(@, toolId, cap)]]
  /\ UNCHANGED <<tools, activeSystemId, rules, dirtyInfoSystems, dirtyTools, deletedIds,
                 dbVars, outVars, batchVars>>
  /\ Recalc

toggleScenario(id) ==
  /\ activeSystemId \in DOMAIN systems
  /\ \E sc \in shownScenarios(systems[activeSystemId], tools) : sc.id = id
  /\ systems' = [systems EXCEPT ![activeSystemId] = toggleScenarioSys(@, id)]
  /\ dirtyCoverageSystems' = dirtyCoverageSystems \cup {activeSystemId}
  /\ never' = [t \in DOMAIN never |->
                 IF t \in ownerOf(tools, id) THEN never[t]
                 ELSE [never[t] EXCEPT ![activeSystemId] = toggleScenarioSys(@, id)]]
  /\ UNCHANGED <<tools, activeSystemId, rules, dirtyInfoSystems, dirtyTools, deletedIds,
                 dbVars, outVars, batchVars>>
  /\ Recalc

deleteTool(id) ==
  /\ id \in DOMAIN tools
  /\ tools' = [t \in DOMAIN tools \ {id} |-> tools[t]]
  /\ systems' = [s \in DOMAIN systems |-> deleteToolSys(systems[s], id)]
  /\ dirtyTools' = TRUE
  /\ never' = [t \in DOMAIN never |->
                 [s \in DOMAIN never[t] |-> deleteToolSys(never[t][s], id)]]
  /\ deletedIds' = deletedIds \cup {id}
  /\ outbox' = outbox \cup {[api |-> "delete-tool",
                              body |-> [id |-> id, name |-> "", taskId |-> Some(activeTaskId)]]}
  /\ UNCHANGED <<activeSystemId, rules, dirtyInfoSystems, dirtyCoverageSystems, dbVars,
                 exportFile, batchVars>>
  /\ Recalc

\* two tools; T2 grants trans without having a trans scenario
PageCatalog ==
  [t \in {"T1", "T2"} |->
     IF t = "T1"
     THEN [name |-> "n1", defaultCapabilities |-> {"host", "process"},
           scenarios |-> {[id |-> "h1", category |-> "host"]}]
     ELSE [name |-> "n2", defaultCapabilities |-> {"db", "trans"},
           scenarios |-> {[id |-> "d1", category |-> "db"]}]]

PageSystem(id) ==
  [createDefaultSystem(id) EXCEPT !.isSelfBuilt = TRUE, !.serverTotal = 4, !.serverCovered = 4,
                                  !.appTotal = 1, !.appCovered = 1]

InitPage ==
  /\ systems = [s \in {"S1", "S2"} |-> PageSystem(s)]
  /\ tools = PageCatalog
  /\ activeSystemId = "S1"
  /\ rules = TypicalRules
  /\ scores = calculateScore(systems[activeSystemId], tools, rules)
  /\ dirtyInfoSystems = {} /\ dirtyCoverageSystems = {} /\ dirtyTools = FALSE
  /\ never = [t \in DOMAIN tools |-> systems]
  /\ deletedIds = {}
  /\ NoStore /\ outbox = {} /\ exportFile = <<>> /\ NoBatch

NextPage ==
  \/ \E id \in DOMAIN systems : setActiveSystemId(id)
  \/ \E t \in DOMAIN tools : toggleTool(t)
  \/ \E t \in DOMAIN tools : \E c \in tools[t].defaultCapabilities : toggleToolCapability(t, c)
  \/ \E t \in DOMAIN tools : \E sc \in tools[t].scenarios : toggleScenario(sc.id)
  \/ \E t \in DOMAIN tools : deleteTool(t)

SpecPage == InitPage /\ [][NextPage]_vars

----------------------------------------------------------------------------
(* Claims on the scoring engine, checked under SpecScore *)

SumOfParts == scores.part1 + scores.part2 + scores.part3 + scores.part4

\* C1: for every input the result satisfies 0 <= part1 <= 60, 0 <= part2 <= 20,
\* part3 >= 0, part4 >= 0, total >= 0, and total is part1+part2+part3+part4
\* rounded to one decimal place (a multiple of 0.1 at distance at most 0.05
\* from the sum, the tie going up).
C1_ScoreBounds ==
  /\ 0 <= scores.part1 /\ scores.part1 <= Pts(60)
  /\ 0 <= scores.part2 /\ scores.part2 <= Pts(20)
  /\ scores.part3 >= 0
  /\ scores.part4 >= 0
  /\ scores.total >= 0
  /\ scores.total % 10 = 0
  /\ SumOfParts - 5 < scores.total /\ scores.total <= SumOfParts + 5

\* a negative counter, and a sum that is not a multiple of 0.1
C1_Witness ==
  /\ activeSystem.lateResponseCount < 0
  /\ SumOfParts % 10 # 0
  /\ scores = calculateScore(activeSystem, tools, rules)

\* C9: increasing documentedItems, everything else fixed, never decreases
\* part1, and once documentedItems times bonusPerItem has reached the cap
\* part1 does not change any more.
C9_DocMonotone ==
  [][systems'[activeSystemId].documentedItems > systems[activeSystemId].documentedItems
       => /\ scores'.part1 >= scores.part1
          /\ (systems[activeSystemId].documentedItems * OrElse(rules.docPer, Pts(1))
                 >= OrElse(rules.docCap, Pts(5))
               => scores'.part1 = scores.part1)]_vars

\* documentedItems was raised beyond the cap and part1 is not at a clamp
C9_Witness ==
  /\ activeSystem.documentedItems * OrElse(rules.docPer, Pts(1)) > OrElse(rules.docCap, Pts(5))
  /\ 0 < scores.part1 /\ scores.part1 < Pts(60)

\* the accuracy rate as the claim states it
C10_Rate(d) ==
  IF Has(d.accuracyRate) THEN d.accuracyRate[1]
  ELSE IF Has(d.alertTotal)
       THEN IF d.alertTotal[1] <= 0 THEN Rate(0, 1)
            ELSE LET r == Rate(d.alertTotal[1] - OrElse(d.falseAlertTotal, 0), d.alertTotal[1])
                 IN IF r.num < 0 THEN Rate(0, 1) ELSE IF r.num > r.den THEN Rate(1, 1) ELSE r
       ELSE [perfect |-> Rate(995, 1000), high |-> Rate(96, 100),
             medium |-> Rate(92, 100), low |-> Rate(89, 100)][d.accuracy]

\* C10: the accuracy rate is the explicit accuracyRate when present, otherwise
\* (alertTotal - falseAlertTotal) / alertTotal clamped to [0,1] with
\* alertTotal <= 0 giving 0, otherwise the qualitative constant; the points are
\* 10 for rate >= 0.95, 7 for >= 0.85, 3 for >= 0.70, else 0.
C10_Accuracy ==
  LET d == activeSystem
      r == C10_Rate(d)
  IN /\ scores.accuracyRatePct.num * r.den = 100 * r.num * scores.accuracyRatePct.den
     /\ scores.accuracyScore =
          (IF 100 * r.num >= 95 * r.den THEN Pts(10)
           ELSE IF 100 * r.num >= 85 * r.den THEN Pts(7)
           ELSE IF 100 * r.num >= 70 * r.den THEN Pts(3) ELSE 0)
     /\ (~Has(d.accuracyRate) /\ d.alertTotal = Some(0) => scores.accuracyScore = 0)

\* 19 of 20 alerts are true: the rate is exactly 0.95 and earns 10 points
C10_Witness ==
  /\ ~Has(activeSystem.accuracyRate)
  /\ activeSystem.alertTotal = Some(20) /\ activeSystem.falseAlertTotal = Some(1)
  /\ scores.accuracyScore = Pts(10)

\* the system with the ids that resolve to nothing in the catalog removed
C6_Resolved(d, tls) ==
  [d EXCEPT
     !.selectedToolIds = d.selectedToolIds \cap DOMAIN tls,
     !.toolCapabilities = [t \in DOMAIN d.toolCapabilities \cap DOMAIN tls |-> d.toolCapabilities[t]],
     !.checkedScenarioIds =
        {i \in d.checkedScenarioIds : \E t \in DOMAIN tls : \E sc \in tls[t].scenarios : sc.id = i}]

\* C6: a selected tool id or checked scenario id that does not resolve in the
\* catalog counts as not selected / not checked: the whole ScoreResult equals
\* the result for the system with the unresolved ids removed.
C6_UnresolvedIgnored ==
  scores = calculateScore(C6_Resolved(activeSystem, tools), tools, rules)

\* the system with capability c of tool t not granted
C8_Without(d, t, c) == [d EXCEPT !.toolCapabilities[t] = @ \ {c}]

C8_SameFraction(a, b) == a.num * b.den = b.num * a.den

\* C8: a (selected tool, enabled capability) pair whose tool has no scenario
\* of that capability contributes no term to the standardization average:
\* granting or not granting such a capability gives the same score1_2, and
\* when no pair has a scenario score1_2 is 0.
C8_ScenarioExclusion ==
  LET d == activeSystem
      resolved == d.selectedToolIds \cap DOMAIN tools
  IN /\ \A t \in resolved : \A c \in capsOf(d, t) :
          relevantOf(tools[t], c) = {}
            => C8_SameFraction(score1_2(d, tools, rules), score1_2(C8_Without(d, t, c), tools, rules))
     /\ ((\A t \in resolved : \A c \in capsOf(d, t) : relevantOf(tools[t], c) = {})
           => score1_2(d, tools, rules).num = 0)

\* T2 is selected with db (three scenarios) and trans (none), and the average
\* is not 0
C8_Witness ==
  /\ "T2" \in activeSystem.selectedToolIds
  /\ capsOf(activeSystem, "T2") = {"db", "trans"}
  /\ relevantOf(tools["T2"], "trans") = {}
  /\ score1_2(activeSystem, tools, rules).num > 0

----------------------------------------------------------------------------
(* Claims on the tool handlers, checked under SpecPage *)

\* C5: after deleteTool(id), whatever toggleTool, toggleToolCapability and
\* toggleScenario calls came before, every system scores against the
\* remaining catalog as the same system had it never selected tool id, and no
\* system's selectedToolIds or toolCapabilities mentions id.
C5_DeleteToolCascade ==
  \A id \in deletedIds : \A s \in DOMAIN systems :
    /\ calculateScore(systems[s], tools, rules) = calculateScore(never[id][s], tools, rules)
    /\ id \notin systems[s].selectedToolIds
    /\ id \notin DOMAIN systems[s].toolCapabilities

\* T1 was deleted after a system had selected it and checked its scenario,
\* and that system still scores on the other tool
C5_Witness ==
  /\ "T1" \in deletedIds
  /\ \E s \in DOMAIN systems :
        /\ "h1" \in systems[s].checkedScenarioIds
        /\ "T2" \in systems[s].selectedToolIds
        /\ calculateScore(systems[s], tools, rules).part1 > 0

----------------------------------------------------------------------------
(* The store: tables, identifiers and requests *)

\* the column values gen_random_uuid() hands out, in the order it does
GenPool == <<"g1", "g2", "g3", "g4", "g5", "g6", "g7", "g8">>

\* strings of the form 8-4-4-4-12 with a version digit 1-5 and a variant digit
UUIDs == {"u1", "u2", "t1", "c1"} \cup {GenPool[j] : j \in 1..Len(GenPool)}

\* 36 hexadecimal digits and dashes that are not of the form above
UuidLikeOnly == {"x1"}

isUUID(v) == v \in UUIDs

uuidLike(v) == v \in UUIDs \cup UuidLikeOnly

Requests == {"r1", "r2"}

NoMap == [k \in {} |-> ""]

IdleRequest ==
  [kind |-> "none", body |-> <<>>, pc |-> "idle", now |-> 0, targetSystemId |-> "",
   toolIdMap |-> NoMap, scenarioIdMap |-> NoMap, i |-> 1, dbToolId |-> "",
   todo |-> <<>>, scenIds |-> {}, status |-> 0, updatedAt |-> None, wrote |-> FALSE,
   newTaskId |-> "", toolMap |-> NoMap, sysMap |-> NoMap, rows |-> <<>>]

Put(f, k, v) == [x \in DOMAIN f \cup {k} |-> IF x = k THEN v ELSE f[x]]

Drop(f, K) == [x \in DOMAIN f \ K |-> f[x]]

\* .maybeSingle(): the row when exactly one matches, no data otherwise
maybeSingle(S) == IF Cardinality(S) = 1 THEN Some(CHOOSE x \in S : TRUE) ELSE None

\* .eq("task_id", taskId) on a query that is filtered only when taskId is given
inTask(row, taskId) == Has(taskId) => row.task_id = taskId[1]

\* a step of a request: the tables after it and the request's new locals;
\* wrote records whether the request has changed a table so far
Commit(r, req, S, T, TS, ST, SS) ==
  /\ dbSystems' = S /\ dbTools' = T /\ dbToolScenarios' = TS
  /\ dbSystemTools' = ST /\ dbSystemScenarios' = SS
  /\ reqs' = [reqs EXCEPT ![r] = [req EXCEPT !.wrote = @ \/ <<S, T, TS, ST, SS>> # tables]]

\* a step that only reads
ReadOnly(r, req) ==
  Commit(r, req, dbSystems, dbTools, dbToolScenarios, dbSystemTools, dbSystemScenarios)

Respond(req, status) == [req EXCEPT !.pc = "done", !.status = status]

----------------------------------------------------------------------------
(* POST /api/save-config *)

\* the columns the handler writes to a systems row
systemColumns(sys, now, taskId) ==
  [name |-> sys.name, class |-> sys.tier, is_self_built |-> sys.isSelfBuilt,
   server_coverage |-> sys.serverCoverage, app_coverage |-> sys.appCoverage,
   server_total |-> sys.serverTotal, server_covered |-> sys.serverCovered,
   app_total |-> sys.appTotal, app_covered |-> sys.appCovered,
   documented_items |-> sys.documentedItems, updated_at |-> now, task_id |-> taskId]

toolColumns(t, now, taskId) ==
  [name |-> t.name, default_caps |-> t.defaultCapabilities, updated_at |-> now,
   task_id |-> taskId]

\* latest?.updated_at && latest.updated_at !== expectedUpdatedAt
conflict_never(latest, expectedUpdatedAt) == FALSE

conflict(latest, expectedUpdatedAt) ==
  Has(latest) /\ latest[1].updated_at # expectedUpdatedAt

\* where the handler goes after the systems row: the next tool of the loop,
\* or the clean-up of the old links when the loop is over
toolsLoop(req) ==
  IF req.i <= Len(req.body.tools)
  THEN [req EXCEPT !.pc = IF isUUID(req.body.tools[req.i].id) THEN "toolUpsert"
                          ELSE "toolByName"]
  ELSE [req EXCEPT !.pc = "delSystemTools"]

\* toolIdMap[tid] || tid
mapped(m, id) == IF id \in DOMAIN m THEN m[id] ELSE id

safeToolIds(req) ==
  {tid \in {mapped(req.toolIdMap, x) : x \in req.body.system.selectedToolIds} : isUUID(tid)}

safeScenarioIds(req) ==
  {sid \in {mapped(req.scenarioIdMap, x) : x \in req.body.checkedScenarioIds} : uuidLike(sid)}

\* sys.toolCapabilities[tid], else the entry under the first temporary id
\* that toolIdMap sends to tid, else []
capsSelected(req, tid) ==
  LET tc == req.body.system.toolCapabilities
      tls == req.body.tools
      idxs == {j \in 1..Len(tls) : tls[j].id \in DOMAIN req.toolIdMap
                                     /\ req.toolIdMap[tls[j].id] = tid}
      first == tls[CHOOSE j \in idxs : \A m \in idxs : j <= m].id
  IN IF tid \in DOMAIN tc THEN tc[tid]
     ELSE IF idxs # {} /\ first \in DOMAIN tc THEN tc[first]
     ELSE {}

\* where the handler goes after the old links are gone: an insert is issued
\* only for a non-empty list
afterCleanup(req) ==
  [req EXCEPT !.pc = IF safeToolIds(req) # {} THEN "insSystemTools"
                     ELSE IF safeScenarioIds(req) # {} THEN "insSystemScenarios"
                     ELSE "readBack"]

\* the values of updated_at: 1 is the stored one, 0 an older one, the others
\* are written by the requests
MaxVersion == 3

Versions == 0..MaxVersion

\* sys.updatedAt comes from the store: a client holds only a version that
\* the store has handed out
held(body) == Has(body.expectedUpdatedAt) => body.expectedUpdatedAt[1] < clock

\* the request arrives: validation, the timestamp, the branch on sys.id
receiveSaveConfig(r, body) ==
  /\ reqs[r].pc = "idle"
  /\ held(body)
  /\ LET req == [reqs[r] EXCEPT !.kind = "save-config", !.body = body]
     IN IF ~Has(body.taskId) \/ body.system.id = ""
        THEN ReadOnly(r, Respond(req, 400)) /\ UNCHANGED clock
        ELSE /\ clock' = clock + 1
             /\ LET q == [req EXCEPT !.now = clock, !.targetSystemId = body.system.id]
                IN ReadOnly(r, IF ~isUUID(body.system.id) THEN [q EXCEPT !.pc = "sysByName"]
                               ELSE IF Has(body.expectedUpdatedAt)
                                    THEN [q EXCEPT !.pc = "sysCheck"]
                                    ELSE [q EXCEPT !.pc = "sysUpdate"])
  /\ UNCHANGED <<uiVars, histVars, outVars, batchVars, roundVars, issued, everScenarioOf>>

\* a temporary system id: look the system up by name
saveSysByName(r) ==
  /\ reqs[r].pc = "sysByName"
  /\ LET req == reqs[r]
         existingByName == maybeSingle({id \in DOMAIN dbSystems :
                                          dbSystems[id].name = req.body.system.name})
     IN ReadOnly(r, IF Has(existingByName)
                    THEN toolsLoop([req EXCEPT !.targetSystemId = existingByName[1]])
                    ELSE [req EXCEPT !.pc = "sysInsert"])
  /\ UNCHANGED <<uiVars, histVars, outVars, batchVars, roundVars, clock, issued, everScenarioOf>>

saveSysInsert(r) ==
  /\ reqs[r].pc = "sysInsert"
  /\ issued < Len(GenPool)
  /\ LET req == reqs[r]
         id == GenPool[issued + 1]
     IN Commit(r, toolsLoop([req EXCEPT !.targetSystemId = id]),
               Put(dbSystems, id, systemColumns(req.body.system, req.now, req.body.taskId[1])),
               dbTools, dbToolScenarios, dbSystemTools, dbSystemScenarios)
  /\ issued' = issued + 1
  /\ UNCHANGED <<uiVars, histVars, outVars, batchVars, roundVars, clock, everScenarioOf>>

\* the optimistic lock: read updated_at and compare
saveSysCheck(r) ==
  /\ reqs[r].pc = "sysCheck"
  /\ LET req == reqs[r]
         latest == IF req.targetSystemId \in DOMAIN dbSystems
                   THEN Some(dbSystems[req.targetSystemId]) ELSE None
     IN ReadOnly(r, IF conflict(latest, req.body.expectedUpdatedAt[1])
                    THEN Respond(req, 409)
                    ELSE [req EXCEPT !.pc = "sysUpdate"])
  /\ UNCHANGED <<uiVars, histVars, outVars, batchVars, roundVars, clock, issued, everScenarioOf>>

saveSysUpdate(r) ==
  /\ reqs[r].pc = "sysUpdate"
  /\ LET req == reqs[r]
         id == req.targetSystemId
         taskId == req.body.taskId[1]
     IN Commit(r, toolsLoop(req),
               IF id \in DOMAIN dbSystems /\ dbSystems[id].task_id = taskId
               THEN Put(dbSystems, id, systemColumns(req.body.system, req.now, taskId))
               ELSE dbSystems,
               dbTools, dbToolScenarios, dbSystemTools, dbSystemScenarios)
  /\ UNCHANGED <<uiVars, histVars, outVars, batchVars, roundVars, clock, issued, everScenarioOf>>

\* a tool with a temporary id: look it up by name within the task
saveToolByName(r) ==
  /\ reqs[r].pc = "toolByName"
  /\ LET req == reqs[r]
         t == req.body.tools[req.i]
         existingTool == maybeSingle({id \in DOMAIN dbTools :
                                        /\ dbTools[id].name = t.name
                                        /\ dbTools[id].task_id = req.body.taskId[1]})
     IN ReadOnly(r, IF Has(existingTool)
                    THEN [req EXCEPT !.dbToolId = existingTool[1],
                                     !.toolIdMap = Put(@, t.id, existingTool[1]),
                                     !.pc = "scenDelete"]
                    ELSE [req EXCEPT !.pc = "toolInsert"])
  /\ UNCHANGED <<uiVars, histVars, outVars, batchVars, roundVars, clock, issued, everScenarioOf>>

saveToolInsert(r) ==
  /\ reqs[r].pc = "toolInsert"
  /\ issued < Len(GenPool)
  /\ LET req == reqs[r]
         t == req.body.tools[req.i]
         id == GenPool[issued + 1]
     IN Commit(r, [req EXCEPT !.dbToolId = id, !.toolIdMap = Put(@, t.id, id),
                              !.pc = "scenDelete"],
               dbSystems, Put(dbTools, id, toolColumns(t, req.now, req.body.taskId[1])),
               dbToolScenarios, dbSystemTools, dbSystemScenarios)
  /\ issued' = issued + 1
  /\ UNCHANGED <<uiVars, histVars, outVars, batchVars, roundVars, clock, everScenarioOf>>

\* a tool with a UUID: upsert on the primary key
saveToolUpsert(r) ==
  /\ reqs[r].pc = "toolUpsert"
  /\ LET req == reqs[r]
         t == req.body.tools[req.i]
     IN Commit(r, [req EXCEPT !.dbToolId = t.id, !.pc = "scenDelete"],
               dbSystems, Put(dbTools, t.id, toolColumns(t, req.now, req.body.taskId[1])),
               dbToolScenarios, dbSystemTools, dbSystemScenarios)
  /\ UNCHANGED <<uiVars, histVars, outVars, batchVars, roundVars, clock, issued, everScenarioOf>>

\* the tool's scenario rows of this task are deleted before the new ones go in
saveScenDelete(r) ==
  /\ reqs[r].pc = "scenDelete"
  /\ LET req == reqs[r]
         t == req.body.tools[req.i]
         gone == {id \in DOMAIN dbToolScenarios :
                    /\ dbToolScenarios[id].tool_id = req.dbToolId
                    /\ dbToolScenarios[id].task_id = req.body.taskId[1]}
     IN Commit(r, IF Len(t.scenarios) > 0 THEN [req EXCEPT !.pc = "scenInsert"]
                  ELSE toolsLoop([req EXCEPT !.i = @ + 1]),
               dbSystems, dbTools, Drop(dbToolScenarios, gone), dbSystemTools,
               dbSystemScenarios)
  /\ UNCHANGED <<uiVars, histVars, outVars, batchVars, roundVars, clock, issued, everScenarioOf>>

\* newIdx after the first j scenarios: how many of them have a temporary id
tempRank(scs, j) == Cardinality({m \in 1..j : ~isUUID(scs[m].id)})

\* one insert of all the tool's scenarios: a row keeps its id when that is a
\* UUID and gets a generated one otherwise; a primary-key clash fails the
\* insert and the request; scenarioIdMap takes the id of the newIdx-th
\* returned row for the newIdx-th temporary scenario
saveScenInsert(r) ==
  /\ reqs[r].pc = "scenInsert"
  /\ LET req == reqs[r]
         t == req.body.tools[req.i]
         scs == t.scenarios
         n == Len(scs)
         rowId == [j \in 1..n |-> IF isUUID(scs[j].id) THEN scs[j].id
                                  ELSE GenPool[issued + tempRank(scs, j)]]
         clash == \/ \E j \in 1..n : rowId[j] \in DOMAIN dbToolScenarios
                  \/ \E j, m \in 1..n : j # m /\ rowId[j] = rowId[m]
         row(j) == [tool_id |-> req.dbToolId, category |-> scs[j].category,
                    metric |-> scs[j].metric, threshold |-> scs[j].threshold,
                    level |-> scs[j].level, task_id |-> req.body.taskId[1]]
         newIds == {rowId[j] : j \in 1..n}
         inserted == [id \in DOMAIN dbToolScenarios \cup newIds |->
                        IF id \in newIds
                        THEN row(CHOOSE j \in 1..n : rowId[j] = id)
                        ELSE dbToolScenarios[id]]
         entry(id) == LET j == CHOOSE m \in 1..n : scs[m].id = id /\
                                   \A m2 \in 1..n : scs[m2].id = id => m2 <= m
                      IN IF isUUID(id) THEN id ELSE rowId[tempRank(scs, j)]
         ids == {scs[j].id : j \in 1..n}
         newMap == [id \in DOMAIN req.scenarioIdMap \cup ids |->
                      IF id \in ids THEN entry(id) ELSE req.scenarioIdMap[id]]
     IN /\ issued + tempRank(scs, n) <= Len(GenPool)
        /\ IF clash
           THEN /\ ReadOnly(r, Respond(req, 500))
                /\ UNCHANGED <<issued, everScenarioOf>>
           ELSE /\ Commit(r, toolsLoop([req EXCEPT !.scenarioIdMap = newMap, !.i = @ + 1]),
                          dbSystems, dbTools, inserted, dbSystemTools, dbSystemScenarios)
                /\ issued' = issued + tempRank(scs, n)
                /\ everScenarioOf' = everScenarioOf \cup
                                       {<<id, req.dbToolId>> : id \in newIds}
  /\ UNCHANGED <<uiVars, histVars, outVars, batchVars, roundVars, clock>>

\* the clean-up of the system's old links within the task
saveDelSystemTools(r) ==
  /\ reqs[r].pc = "delSystemTools"
  /\ LET req == reqs[r]
     IN Commit(r, [req EXCEPT !.pc = "delSystemScenarios"],
               dbSystems, dbTools, dbToolScenarios,
               {x \in dbSystemTools : ~(x.system_id = req.targetSystemId
                                        /\ x.task_id = req.body.taskId[1])},
               dbSystemScenarios)
  /\ UNCHANGED <<uiVars, histVars, outVars, batchVars, roundVars, clock, issued, everScenarioOf>>

saveDelSystemScenarios(r) ==
  /\ reqs[r].pc = "delSystemScenarios"
  /\ LET req == reqs[r]
     IN Commit(r, afterCleanup(req),
               dbSystems, dbTools, dbToolScenarios, dbSystemTools,
               {x \in dbSystemScenarios : ~(x.system_id = req.targetSystemId
                                            /\ x.task_id = req.body.taskId[1])})
  /\ UNCHANGED <<uiVars, histVars, outVars, batchVars, roundVars, clock, issued, everScenarioOf>>

saveInsSystemTools(r) ==
  /\ reqs[r].pc = "insSystemTools"
  /\ LET req == reqs[r]
         rows == {[system_id |-> req.targetSystemId, tool_id |-> tid,
                   caps_selected |-> capsSelected(req, tid),
                   task_id |-> req.body.taskId[1]] : tid \in safeToolIds(req)}
     IN Commit(r, [req EXCEPT !.pc = IF safeScenarioIds(req) # {} THEN "insSystemScenarios"
                                     ELSE "readBack"],
               dbSystems, dbTools, dbToolScenarios, dbSystemTools \cup rows,
               dbSystemScenarios)
  /\ UNCHANGED <<uiVars, histVars, outVars, batchVars, roundVars, clock, issued, everScenarioOf>>

saveInsSystemScenarios(r) ==
  /\ reqs[r].pc = "insSystemScenarios"
  /\ LET req == reqs[r]
         rows == {[system_id |-> req.targetSystemId, scenario_id |-> sid, checked |-> TRUE,
                   task_id |-> req.body.taskId[1]] : sid \in safeScenarioIds(req)}
     IN Commit(r, [req EXCEPT !.pc = "readBack"],
               dbSystems, dbTools, dbToolScenarios, dbSystemTools,
               dbSystemScenarios \cup rows)
  /\ UNCHANGED <<uiVars, histVars, outVars, batchVars, roundVars, clock, issued, everScenarioOf>>

\* the response: updatedAt is read back from the row
saveReadBack(r) ==
  /\ reqs[r].pc = "readBack"
  /\ LET req == reqs[r]
         id == req.targetSystemId
     IN ReadOnly(r, [Respond(req, 200) EXCEPT
                       !.updatedAt = IF id \in DOMAIN dbSystems
                                     THEN Some(dbSystems[id].updated_at)
                                     ELSE Some(req.now)])
  /\ UNCHANGED <<uiVars, histVars, outVars, batchVars, roundVars, clock, issued, everScenarioOf>>

----------------------------------------------------------------------------
(* POST /api/delete-tool *)

\* the request arrives: by id when the id is a UUID, else by name, else
\* nothing to do
receiveDeleteTool(r, body) ==
  /\ reqs[r].pc = "idle"
  /\ LET req == [reqs[r] EXCEPT !.kind = "delete-tool", !.body = body]
     IN ReadOnly(r, IF body.id # "" /\ isUUID(body.id)
                    THEN [req EXCEPT !.todo = <<body.id>>, !.pc = "delScenList"]
                    ELSE IF body.name # "" THEN [req EXCEPT !.pc = "delByName"]
                    ELSE Respond(req, 200))
  /\ UNCHANGED <<uiVars, histVars, outVars, batchVars, roundVars, clock, issued, everScenarioOf>>

\* the ids of a set, in some order
RECURSIVE SetToSeq(_)
SetToSeq(S) ==
  IF S = {} THEN <<>>
  ELSE LET x == CHOOSE y \in S : TRUE IN <<x>> \o SetToSeq(S \ {x})

\* the tools of that name (of the task, when one is given)
delByName(r) ==
  /\ reqs[r].pc = "delByName"
  /\ LET req == reqs[r]
         rows == {id \in DOMAIN dbTools : /\ dbTools[id].name = req.body.name
                                          /\ inTask(dbTools[id], req.body.taskId)}
     IN ReadOnly(r, IF rows = {} THEN Respond(req, 200)
                    ELSE [req EXCEPT !.todo = SetToSeq(rows), !.pc = "delScenList"])
  /\ UNCHANGED <<uiVars, histVars, outVars, batchVars, roundVars, clock, issued, everScenarioOf>>

\* deleteById, first query: the ids of the tool's scenarios
delScenList(r) ==
  /\ reqs[r].pc = "delScenList"
  /\ LET req == reqs[r]
         toolId == Head(req.todo)
         scenIds == {id \in DOMAIN dbToolScenarios :
                       /\ dbToolScenarios[id].tool_id = toolId
                       /\ inTask(dbToolScenarios[id], req.body.taskId)}
     IN ReadOnly(r, [req EXCEPT !.scenIds = scenIds,
                                !.pc = IF scenIds # {} THEN "delSysScen" ELSE "delSysTool"])
  /\ UNCHANGED <<uiVars, histVars, outVars, batchVars, roundVars, clock, issued, everScenarioOf>>

delSysScen(r) ==
  /\ reqs[r].pc = "delSysScen"
  /\ LET req == reqs[r]
     IN Commit(r, [req EXCEPT !.pc = "delSysTool"],
               dbSystems, dbTools, dbToolScenarios, dbSystemTools,
               {x \in dbSystemScenarios : ~(x.scenario_id \in req.scenIds
                                            /\ inTask(x, req.body.taskId))})
  /\ UNCHANGED <<uiVars, histVars, outVars, batchVars, roundVars, clock, issued, everScenarioOf>>

delSysTool(r) ==
  /\ reqs[r].pc = "delSysTool"
  /\ LET req == reqs[r]
     IN Commit(r, [req EXCEPT !.pc = "delScen"],
               dbSystems, dbTools, dbToolScenarios,
               {x \in dbSystemTools : ~(x.tool_id = Head(req.todo)
                                        /\ inTask(x, req.body.taskId))},
               dbSystemScenarios)
  /\ UNCHANGED <<uiVars, histVars, outVars, batchVars, roundVars, clock, issued, everScenarioOf>>

delScen(r) ==
  /\ reqs[r].pc = "delScen"
  /\ LET req == reqs[r]
         gone == {id \in DOMAIN dbToolScenarios :
                    /\ dbToolScenarios[id].tool_id = Head(req.todo)
                    /\ inTask(dbToolScenarios[id], req.body.taskId)}
     IN Commit(r, [req EXCEPT !.pc = "delTool"],
               dbSystems, dbTools, Drop(dbToolScenarios, gone), dbSystemTools,
               dbSystemScenarios)
  /\ UNCHANGED <<uiVars, histVars, outVars, batchVars, roundVars, clock, issued, everScenarioOf>>

\* deleteById, last statement; then the next tool of that name or the response
delTool(r) ==
  /\ reqs[r].pc = "delTool"
  /\ LET req == reqs[r]
         toolId == Head(req.todo)
         gone == {id \in DOMAIN dbTools : id = toolId /\ inTask(dbTools[id], req.body.taskId)}
         rest == Tail(req.todo)
     IN Commit(r, IF rest = <<>> THEN Respond([req EXCEPT !.todo = rest], 200)
                  ELSE [req EXCEPT !.todo = rest, !.pc = "delScenList"],
               dbSystems, Drop(dbTools, gone), dbToolScenarios, dbSystemTools,
               dbSystemScenarios)
  /\ UNCHANGED <<uiVars, histVars, outVars, batchVars, roundVars, clock, issued, everScenarioOf>>

----------------------------------------------------------------------------
(* The store under two requests *)

NoCaps == [t \in {} |-> {}]

\* the system the clients have loaded and edit
StoredSystem ==
  [id |-> "u1", name |-> "sysA", tier |-> "A", isSelfBuilt |-> TRUE,
   serverCoverage |-> "full", appCoverage |-> "full",
   serverTotal |-> 4, serverCovered |-> 4, appTotal |-> 1, appCovered |-> 1,
   documentedItems |-> 0, selectedToolIds |-> {}, toolCapabilities |-> NoCaps]

Scenario(id, metric) ==
  [id |-> id, category |-> "host", metric |-> metric, threshold |-> "", level |-> "gray"]

StoredTool ==
  [id |-> "t1", name |-> "n1", defaultCapabilities |-> {"host"},
   scenarios |-> <<Scenario("c1", "cpu")>>]

\* each client writes its own value
DocOf(r) == IF r = "r1" THEN 1 ELSE 2

BaseBody(r) ==
  [system |-> [StoredSystem EXCEPT !.documentedItems = DocOf(r)], tools |-> <<>>,
   checkedScenarioIds |-> {}, expectedUpdatedAt |-> None, taskId |-> Some("k1")]

Selecting(b, ids, caps, checked) ==
  [b EXCEPT !.system.selectedToolIds = ids, !.system.toolCapabilities = caps,
            !.checkedScenarioIds = checked]

HostCaps(id) == [t \in {id} |-> {"host"}]

\* the bodies a client sends: the stored system with and without a version,
\* under either task, with a selection, under a temporary id (also from the
\* other task), and with the catalogue attached
SaveBodies(r) ==
  LET b == BaseBody(r)
      sel == Selecting(b, {"t1"}, HostCaps("t1"), {"c1"})
  IN {[b EXCEPT !.expectedUpdatedAt = e] : e \in {None} \cup {Some(v) : v \in Versions}}
     \cup {[sel EXCEPT !.expectedUpdatedAt = Some(v)] : v \in Versions}
     \cup {[sel EXCEPT !.taskId = k] : k \in {None, Some("k1"), Some("k2")}}
     \cup {[sel EXCEPT !.system.id = "sys_tmp", !.taskId = Some("k2")]}
     \cup {Selecting(b, {"tool_tmp"}, HostCaps("tool_tmp"), {"x1"})}
     \cup {[b EXCEPT !.system.id = id, !.system.name = n] :
             id \in {"", "sys_tmp"}, n \in {"sysA", "sysB"}}
     \cup {[sel EXCEPT !.tools = <<[StoredTool EXCEPT !.scenarios =
                                      @ \o <<Scenario("s_tmp", "mem")>>]>>,
                       !.checkedScenarioIds = {"c1", "s_tmp"}]}
     \cup {[Selecting(b, {"tool_tmp"}, HostCaps("tool_tmp"), {"s_tmp"}) EXCEPT
              !.tools = <<[id |-> "tool_tmp", name |-> n, defaultCapabilities |-> {"host"},
                           scenarios |-> scs]>>] :
             n \in {"n1", "n2"}, scs \in {<<>>, <<Scenario("s_tmp", "mem")>>}}

DeleteBodies ==
  {[id |-> id, name |-> n, taskId |-> k] :
     id \in {"t1", "tool_tmp", ""}, n \in {"", "n1"}, k \in {None, Some("k1"), Some("k2")}}

InitStore ==
  /\ systems = [s \in {"S1"} |-> PageSystem(s)]
  /\ tools = PageCatalog
  /\ activeSystemId = "S1"
  /\ rules = TypicalRules
  /\ scores = calculateScore(systems[activeSystemId], tools, rules)
  /\ dirtyInfoSystems = {} /\ dirtyCoverageSystems = {} /\ dirtyTools = FALSE
  /\ never = [t \in DOMAIN tools |-> systems]
  /\ deletedIds = {}
  /\ dbSystems = [id \in {"u1"} |-> systemColumns(StoredSystem, 1, "k1")]
  /\ dbTools = [id \in {"t1"} |-> toolColumns(StoredTool, 1, "k1")]
  /\ dbToolScenarios = [id \in {"c1"} |->
                          [tool_id |-> "t1", category |-> "host", metric |-> "cpu",
                           threshold |-> "", level |-> "gray", task_id |-> "k1"]]
  /\ dbSystemTools = {[system_id |-> "u1", tool_id |-> "t1", caps_selected |-> {"host"},
                       task_id |-> "k1"]}
  /\ dbSystemScenarios = {[system_id |-> "u1", scenario_id |-> "c1", checked |-> TRUE,
                           task_id |-> "k1"]}
  /\ dbScores = {}
  /\ dbTasks = {"k1", "k2"}
  /\ clock = 2
  /\ issued = 0
  /\ everScenarioOf = {<<"c1", "t1">>}
  /\ reqs = [r \in Requests |-> IdleRequest]
  /\ outbox = {} /\ exportFile = <<>> /\ NoBatch

NextStore ==
  \E r \in Requests :
    \/ \E body \in SaveBodies(r) : receiveSaveConfig(r, body)
    \/ saveSysByName(r)
    \/ saveSysInsert(r)
    \/ saveSysCheck(r)
    \/ saveSysUpdate(r)
    \/ saveToolByName(r)
    \/ saveToolInsert(r)
    \/ saveToolUpsert(r)
    \/ saveScenDelete(r)
    \/ saveScenInsert(r)
    \/ saveDelSystemTools(r)
    \/ saveDelSystemScenarios(r)
    \/ saveInsSystemTools(r)
    \/ saveInsSystemScenarios(r)
    \/ saveReadBack(r)
    \/ \E body \in DeleteBodies : receiveDeleteTool(r, body)
    \/ delByName(r)
    \/ delScenList(r)
    \/ delSysScen(r)
    \/ delSysTool(r)
    \/ delScen(r)
    \/ delTool(r)

SpecStore == InitStore /\ [][NextStore]_vars

----------------------------------------------------------------------------
(* Claims about the store (SpecStore) *)

\* the save-config requests that name a stored system by its id and carry a
\* version of it
carriesVersion(req) ==
  /\ req.kind = "save-config"
  /\ Has(req.body.taskId)
  /\ req.body.system.id \in DOMAIN dbSystems
  /\ Has(req.body.expectedUpdatedAt)

C4_AtMostOneAccepted ==
  \A r, q \in Requests :
    (/\ r # q
     /\ carriesVersion(reqs[r]) /\ carriesVersion(reqs[q])
     /\ reqs[r].body.system.id = reqs[q].body.system.id
     /\ reqs[r].body.taskId = Some(dbSystems[reqs[r].body.system.id].task_id)
     /\ reqs[q].body.taskId = reqs[r].body.taskId
     /\ reqs[r].body.expectedUpdatedAt = reqs[q].body.expectedUpdatedAt)
    => ~(reqs[r].status = 200 /\ reqs[q].status = 200)

\* nothing in the four tables refers to tool t or to a scenario that was t's
NoReference(t, T, TS, ST, SS) ==
  /\ t \notin DOMAIN T
  /\ \A id \in DOMAIN TS : TS[id].tool_id # t
  /\ \A x \in ST : x.tool_id # t
  /\ \A x \in SS : <<x.scenario_id, t>> \notin everScenarioOf

\* C7: when delete-tool answers ok for a tool id, the tools row, the tool's
\* tool_scenarios rows and every system_tools and system_scenarios row that
\* pointed at the tool or at one of its scenarios are gone, whatever their task
C7_DeleteToolNoReference ==
  [][\A r \in Requests :
       (/\ reqs[r].kind = "delete-tool" /\ reqs[r].pc # "done"
        /\ reqs'[r].pc = "done" /\ reqs'[r].status = 200
        /\ isUUID(reqs[r].body.id))
       => NoReference(reqs[r].body.id, dbTools', dbToolScenarios', dbSystemTools',
                      dbSystemScenarios')]_vars

----------------------------------------------------------------------------
(* Claims about the scoring engine, continued (SpecScore) *)

\* the ratio n/d brought into [0,1], for d > 0
C11_Clamped(n, d) == IF n < 0 THEN Rate(0, 1) ELSE IF n > d THEN Rate(1, 1) ELSE Rate(n, d)

\* the points of a rate given in per cent
C11_Tier(pct) ==
  IF pct.num >= 95 * pct.den THEN Pts(10)
  ELSE IF pct.num >= 85 * pct.den THEN Pts(7)
  ELSE IF pct.num >= 70 * pct.den THEN Pts(3) ELSE 0

\* C11: the discovery rate is the explicit discoveryRatePct when present,
\* otherwise faultDetectedTotal / faultTotal clamped to [0,1] when
\* faultTotal > 0, and exactly 1 when faultTotal = 0, which earns 10 points;
\* the points are 10 for rate >= 0.95, 7 for >= 0.85, 3 for >= 0.70, else 0.
C11_Discovery ==
  LET d == activeSystem
      pct == scores.discoveryRatePct
      same(r) == pct.num * r.den = 100 * r.num * pct.den
  IN /\ Has(d.discoveryRatePct) => same(d.discoveryRatePct[1])
     /\ (~Has(d.discoveryRatePct) /\ Has(d.faultTotal) /\ d.faultTotal[1] > 0)
          => same(C11_Clamped(OrElse(d.faultDetectedTotal, 0), d.faultTotal[1]))
     /\ (~Has(d.discoveryRatePct) /\ d.faultTotal = Some(0))
          => same(Rate(1, 1)) /\ scores.discoveryScore = Pts(10)
     /\ scores.discoveryScore = C11_Tier(pct)

\* no fault at all, and no explicit rate: 10 discovery points
C11_Witness ==
  /\ ~Has(activeSystem.discoveryRatePct)
  /\ activeSystem.faultTotal = Some(0)
  /\ scores.discoveryScore = Pts(10)
  /\ scores.part2 = scores.accuracyScore + Pts(10)

\* C12: calculateScore returns a ScoreResult and never raises, also for a
\* system without toolCapabilities or checkedScenarioIds, a catalog tool
\* without a scenarios list, and a rule table that misses rules or tiers.
C12_Total == scores # TypeError /\ "total" \in DOMAIN scores

----------------------------------------------------------------------------
(* POST /api/save-score and DELETE /api/tasks/{id} *)

\* the statements of these two handlers touch scores, tasks and the two link
\* tables; a step records in wrote whether it changed a table
CommitRound(r, req, ST, SS, SC, TK) ==
  /\ dbSystemTools' = ST /\ dbSystemScenarios' = SS /\ dbScores' = SC /\ dbTasks' = TK
  /\ reqs' = [reqs EXCEPT ![r] = [req EXCEPT !.wrote =
                @ \/ <<ST, SS, SC, TK>> # <<dbSystemTools, dbSystemScenarios, dbScores, dbTasks>>]]
  /\ UNCHANGED <<dbSystems, dbTools, dbToolScenarios>>

\* the payload of save-score: the columns of the row it writes
scorePayload(body, now) ==
  [system_id |-> body.systemId,
   rule_version |-> OrElse(body.ruleVersion, "v1"),
   total |-> body.scores[1].total,
   part1 |-> body.scores[1].part1, part2 |-> body.scores[1].part2,
   part3 |-> body.scores[1].part3, part4 |-> body.scores[1].part4,
   details |-> OrElse(body.details, body.scores[1]),
   created_at |-> now,
   task_id |-> body.taskId[1]]

\* .upsert(payload, { onConflict: "task_id,system_id" }): the row of that task
\* and system is replaced by the payload, or the payload is added
upsertScore(S, row) ==
  {x \in S : ~(x.task_id = row.task_id /\ x.system_id = row.system_id)} \cup {row}

\* .insert(payload), the statement of the handler's other revision
insertScore(S, row) == S \cup {row}

\* the handler up to its only statement: 400 on a missing systemId, scores or
\* taskId, else the payload is built with the time of the call
receiveSaveScore(r, body) ==
  /\ reqs[r].pc = "idle"
  /\ LET req == [reqs[r] EXCEPT !.kind = "save-score", !.body = body]
     IN IF body.systemId = "" \/ ~Has(body.scores) \/ ~Has(body.taskId)
        THEN /\ reqs' = [reqs EXCEPT ![r] = Respond(req, 400)]
             /\ UNCHANGED clock
        ELSE /\ reqs' = [reqs EXCEPT ![r] = [req EXCEPT !.now = clock, !.pc = "scoreUpsert"]]
             /\ clock' = clock + 1
  /\ UNCHANGED <<uiVars, histVars, outVars, batchVars, tables, roundVars, issued, everScenarioOf>>

saveScoreUpsert(r) ==
  /\ reqs[r].pc = "scoreUpsert"
  /\ LET req == reqs[r]
     IN CommitRound(r, Respond(req, 200), dbSystemTools, dbSystemScenarios,
                    upsertScore(dbScores, scorePayload(req.body, req.now)), dbTasks)
  /\ UNCHANGED <<uiVars, histVars, outVars, batchVars, clock, issued, everScenarioOf>>

\* DELETE /api/tasks/{id}: four statements, each filtered by the task
receiveDeleteTask(r, id) ==
  /\ reqs[r].pc = "idle"
  /\ reqs' = [reqs EXCEPT ![r] = [@ EXCEPT !.kind = "delete-task", !.body = [id |-> id],
                                           !.pc = "delTaskSystemTools"]]
  /\ UNCHANGED <<uiVars, histVars, outVars, batchVars, tables, roundVars, clock, issued, everScenarioOf>>

delTaskSystemTools(r) ==
  /\ reqs[r].pc = "delTaskSystemTools"
  /\ LET req == reqs[r]
     IN CommitRound(r, [req EXCEPT !.pc = "delTaskSystemScenarios"],
                    {x \in dbSystemTools : x.task_id # req.body.id},
                    dbSystemScenarios, dbScores, dbTasks)
  /\ UNCHANGED <<uiVars, histVars, outVars, batchVars, clock, issued, everScenarioOf>>

delTaskSystemScenarios(r) ==
  /\ reqs[r].pc = "delTaskSystemScenarios"
  /\ LET req == reqs[r]
     IN CommitRound(r, [req EXCEPT !.pc = "delTaskScores"], dbSystemTools,
                    {x \in dbSystemScenarios : x.task_id # req.body.id},
                    dbScores, dbTasks)
  /\ UNCHANGED <<uiVars, histVars, outVars, batchVars, clock, issued, everScenarioOf>>

delTaskScores(r) ==
  /\ reqs[r].pc = "delTaskScores"
  /\ LET req == reqs[r]
     IN CommitRound(r, [req EXCEPT !.pc = "delTaskRow"], dbSystemTools, dbSystemScenarios,
                    {x \in dbScores : x.task_id # req.body.id}, dbTasks)
  /\ UNCHANGED <<uiVars, histVars, outVars, batchVars, clock, issued, everScenarioOf>>

delTaskRow(r) ==
  /\ reqs[r].pc = "delTaskRow"
  /\ LET req == reqs[r]
     IN CommitRound(r, Respond(req, 200), dbSystemTools, dbSystemScenarios, dbScores,
                    dbTasks \ {req.body.id})
  /\ UNCHANGED <<uiVars, histVars, outVars, batchVars, clock, issued, everScenarioOf>>

----------------------------------------------------------------------------
(* POST /api/tasks *)

\* a step that may write any table
CommitAll(r, req, S, T, TS, ST, SS, SC, TK) ==
  /\ dbSystems' = S /\ dbTools' = T /\ dbToolScenarios' = TS
  /\ dbSystemTools' = ST /\ dbSystemScenarios' = SS /\ dbScores' = SC /\ dbTasks' = TK
  /\ reqs' = [reqs EXCEPT ![r] = [req EXCEPT !.wrote =
                @ \/ <<S, T, TS, ST, SS, SC, TK>> # <<dbSystems, dbTools, dbToolScenarios,
                                                      dbSystemTools, dbSystemScenarios,
                                                      dbScores, dbTasks>>]]

ReadAll(r, req) ==
  CommitAll(r, req, dbSystems, dbTools, dbToolScenarios, dbSystemTools, dbSystemScenarios,
            dbScores, dbTasks)

\* genId() for each of ids: the next generated ids, one each
genIds(ids, base) ==
  LET q == SetToSeq(ids)
  IN [x \in ids |-> GenPool[base + (CHOOSE n \in 1..Len(q) : q[n] = x)]]

\* 400 without a name; else the id of the new task is generated
receiveCreateTask(r, body) ==
  /\ reqs[r].pc = "idle"
  /\ issued < Len(GenPool)
  /\ LET req == [reqs[r] EXCEPT !.kind = "create-task", !.body = body]
     IN IF body.name = ""
        THEN ReadAll(r, Respond(req, 400)) /\ UNCHANGED issued
        ELSE /\ ReadAll(r, [req EXCEPT !.newTaskId = GenPool[issued + 1], !.pc = "taskInsert"])
             /\ issued' = issued + 1
  /\ UNCHANGED <<uiVars, histVars, outVars, batchVars, clock, everScenarioOf>>

\* the tasks row
taskInsert(r) ==
  /\ reqs[r].pc = "taskInsert"
  /\ LET req == reqs[r]
     IN CommitAll(r, IF Has(req.body.cloneFrom) THEN [req EXCEPT !.pc = "cloneReadTools"]
                     ELSE Respond(req, 200),
                  dbSystems, dbTools, dbToolScenarios, dbSystemTools, dbSystemScenarios,
                  dbScores, dbTasks \cup {req.newTaskId})
  /\ UNCHANGED <<uiVars, histVars, outVars, batchVars, clock, issued, everScenarioOf>>

\* the tools of the source task with their scenarios; toolMap gets a new id
\* for each
cloneReadTools(r) ==
  /\ reqs[r].pc = "cloneReadTools"
  /\ LET req == reqs[r]
         ids == {id \in DOMAIN dbTools : dbTools[id].task_id = req.body.cloneFrom[1]}
         rows == [n \in 1..Cardinality(ids) |->
                    LET id == SetToSeq(ids)[n]
                    IN [id |-> id, name |-> dbTools[id].name,
                        default_caps |-> dbTools[id].default_caps,
                        tool_scenarios |-> {dbToolScenarios[s] : s \in
                                              {x \in DOMAIN dbToolScenarios :
                                                 dbToolScenarios[x].tool_id = id}}]]
     IN /\ issued + Cardinality(ids) <= Len(GenPool)
        /\ ReadAll(r, IF ids = {} THEN [req EXCEPT !.pc = "cloneReadSystems"]
                      ELSE [req EXCEPT !.rows = rows, !.toolMap = genIds(ids, issued),
                                       !.pc = "cloneInsTools"])
        /\ issued' = issued + Cardinality(ids)
  /\ UNCHANGED <<uiVars, histVars, outVars, batchVars, clock, everScenarioOf>>

\* the copies of the tools
cloneInsTools(r) ==
  /\ reqs[r].pc = "cloneInsTools"
  /\ LET req == reqs[r]
         rows == req.rows
         new == [id \in {req.toolMap[rows[n].id] : n \in 1..Len(rows)} |->
                   LET t == rows[CHOOSE n \in 1..Len(rows) : req.toolMap[rows[n].id] = id]
                   IN [name |-> t.name, default_caps |-> t.default_caps, updated_at |-> clock,
                       task_id |-> req.newTaskId]]
         scens == UNION {{[tool_id |-> req.toolMap[rows[n].id], category |-> s.category,
                           metric |-> s.metric, threshold |-> s.threshold, level |-> s.level,
                           task_id |-> req.newTaskId] : s \in rows[n].tool_scenarios} :
                           n \in 1..Len(rows)}
     IN CommitAll(r, IF scens = {} THEN [req EXCEPT !.rows = <<>>, !.pc = "cloneReadSystems"]
                     ELSE [req EXCEPT !.rows = SetToSeq(scens), !.pc = "cloneInsScens"],
                  dbSystems, [id \in DOMAIN dbTools \cup DOMAIN new |->
                                IF id \in DOMAIN new THEN new[id] ELSE dbTools[id]],
                  dbToolScenarios, dbSystemTools, dbSystemScenarios, dbScores, dbTasks)
  /\ UNCHANGED <<uiVars, histVars, outVars, batchVars, clock, issued, everScenarioOf>>

\* the copies of the scenarios, each under a generated id
cloneInsScens(r) ==
  /\ reqs[r].pc = "cloneInsScens"
  /\ LET req == reqs[r]
         n == Len(req.rows)
         new == [id \in {GenPool[issued + j] : j \in 1..n} |->
                   req.rows[CHOOSE j \in 1..n : GenPool[issued + j] = id]]
     IN /\ issued + n <= Len(GenPool)
        /\ CommitAll(r, [req EXCEPT !.rows = <<>>, !.pc = "cloneReadSystems"],
                     dbSystems, dbTools,
                     [id \in DOMAIN dbToolScenarios \cup DOMAIN new |->
                        IF id \in DOMAIN new THEN new[id] ELSE dbToolScenarios[id]],
                     dbSystemTools, dbSystemScenarios, dbScores, dbTasks)
        /\ issued' = issued + n
        /\ everScenarioOf' = everScenarioOf \cup {<<id, new[id].tool_id>> : id \in DOMAIN new}
  /\ UNCHANGED <<uiVars, histVars, outVars, batchVars, clock>>

\* the systems of the source task; sysMap gets a new id for each
cloneReadSystems(r) ==
  /\ reqs[r].pc = "cloneReadSystems"
  /\ LET req == reqs[r]
         ids == {id \in DOMAIN dbSystems : dbSystems[id].task_id = req.body.cloneFrom[1]}
         map == genIds(ids, issued)
         rows == [n \in 1..Cardinality(ids) |->
                    LET id == SetToSeq(ids)[n]
                    IN [id |-> map[id],
                        row |-> [dbSystems[id] EXCEPT !.task_id = req.newTaskId,
                                                      !.updated_at = clock]]]
     IN /\ issued + Cardinality(ids) <= Len(GenPool)
        /\ ReadAll(r, IF ids = {} THEN Respond(req, 200)
                      ELSE [req EXCEPT !.rows = rows, !.sysMap = map, !.pc = "cloneInsSystems"])
        /\ issued' = issued + Cardinality(ids)
  /\ UNCHANGED <<uiVars, histVars, outVars, batchVars, clock, everScenarioOf>>

cloneInsSystems(r) ==
  /\ reqs[r].pc = "cloneInsSystems"
  /\ LET req == reqs[r]
         rows == req.rows
         new == [id \in {rows[n].id : n \in 1..Len(rows)} |->
                   rows[CHOOSE n \in 1..Len(rows) : rows[n].id = id].row]
     IN CommitAll(r, [req EXCEPT !.rows = <<>>, !.pc = "cloneReadSysTools"],
                  [id \in DOMAIN dbSystems \cup DOMAIN new |->
                     IF id \in DOMAIN new THEN new[id] ELSE dbSystems[id]],
                  dbTools, dbToolScenarios, dbSystemTools, dbSystemScenarios, dbScores, dbTasks)
  /\ UNCHANGED <<uiVars, histVars, outVars, batchVars, clock, issued, everScenarioOf>>

\* the system_tools rows of the source task, with both ids mapped; a row whose
\* system or tool has no copy is left out
cloneReadSysTools(r) ==
  /\ reqs[r].pc = "cloneReadSysTools"
  /\ LET req == reqs[r]
         src == {x \in dbSystemTools : x.task_id = req.body.cloneFrom[1]}
         rows == {[system_id |-> req.sysMap[x.system_id], tool_id |-> req.toolMap[x.tool_id],
                   caps_selected |-> x.caps_selected, task_id |-> req.newTaskId] :
                    x \in {y \in src : /\ y.system_id \in DOMAIN req.sysMap
                                       /\ y.tool_id \in DOMAIN req.toolMap}}
     IN ReadAll(r, IF rows = {} THEN [req EXCEPT !.pc = "cloneReadSysScen"]
                   ELSE [req EXCEPT !.rows = SetToSeq(rows), !.pc = "cloneInsSysTools"])
  /\ UNCHANGED <<uiVars, histVars, outVars, batchVars, clock, issued, everScenarioOf>>

cloneInsSysTools(r) ==
  /\ reqs[r].pc = "cloneInsSysTools"
  /\ LET req == reqs[r]
     IN CommitAll(r, [req EXCEPT !.rows = <<>>, !.pc = "cloneReadSysScen"],
                  dbSystems, dbTools, dbToolScenarios,
                  dbSystemTools \cup {req.rows[n] : n \in 1..Len(req.rows)},
                  dbSystemScenarios, dbScores, dbTasks)
  /\ UNCHANGED <<uiVars, histVars, outVars, batchVars, clock, issued, everScenarioOf>>

\* the system_scenarios rows of the source task: the system id is mapped, the
\* scenario id is kept when it is a UUID and the row is left out otherwise
cloneReadSysScen(r) ==
  /\ reqs[r].pc = "cloneReadSysScen"
  /\ LET req == reqs[r]
         src == {x \in dbSystemScenarios : x.task_id = req.body.cloneFrom[1]}
         rows == {[system_id |-> req.sysMap[x.system_id], scenario_id |-> x.scenario_id,
                   checked |-> x.checked, task_id |-> req.newTaskId] :
                    x \in {y \in src : /\ y.system_id \in DOMAIN req.sysMap
                                       /\ isUUID(y.scenario_id)}}
     IN ReadAll(r, IF rows = {} THEN [req EXCEPT !.pc = "cloneReadScores"]
                   ELSE [req EXCEPT !.rows = SetToSeq(rows), !.pc = "cloneInsSysScen"])
  /\ UNCHANGED <<uiVars, histVars, outVars, batchVars, clock, issued, everScenarioOf>>

cloneInsSysScen(r) ==
  /\ reqs[r].pc = "cloneInsSysScen"
  /\ LET req == reqs[r]
     IN CommitAll(r, [req EXCEPT !.rows = <<>>, !.pc = "cloneReadScores"],
                  dbSystems, dbTools, dbToolScenarios, dbSystemTools,
                  dbSystemScenarios \cup {req.rows[n] : n \in 1..Len(req.rows)},
                  dbScores, dbTasks)
  /\ UNCHANGED <<uiVars, histVars, outVars, batchVars, clock, issued, everScenarioOf>>

\* the scores of the source task, under the copies of their systems
cloneReadScores(r) ==
  /\ reqs[r].pc = "cloneReadScores"
  /\ LET req == reqs[r]
         src == {x \in dbScores : x.task_id = req.body.cloneFrom[1]}
         rows == {[x EXCEPT !.system_id = req.sysMap[x.system_id], !.task_id = req.newTaskId,
                            !.created_at = clock] :
                    x \in {y \in src : y.system_id \in DOMAIN req.sysMap}}
     IN ReadAll(r, IF rows = {} THEN Respond(req, 200)
                   ELSE [req EXCEPT !.rows = SetToSeq(rows), !.pc = "cloneInsScores"])
  /\ UNCHANGED <<uiVars, histVars, outVars, batchVars, clock, issued, everScenarioOf>>

cloneInsScores(r) ==
  /\ reqs[r].pc = "cloneInsScores"
  /\ LET req == reqs[r]
     IN CommitAll(r, Respond([req EXCEPT !.rows = <<>>], 200),
                  dbSystems, dbTools, dbToolScenarios, dbSystemTools, dbSystemScenarios,
                  dbScores \cup {req.rows[n] : n \in 1..Len(req.rows)}, dbTasks)
  /\ UNCHANGED <<uiVars, histVars, outVars, batchVars, clock, issued, everScenarioOf>>

\* the bodies of POST /api/tasks: with and without a name, plain or a clone
TaskBodies ==
  {[name |-> n, cloneFrom |-> c] : n \in {"", "round2"}, c \in {None, Some("k1"), Some("k2")}}

\* the results the page sends: calculateScore of a system under the rule table
SentScores == {calculateScore(p, Catalog, TypicalRules) : p \in Presets}

\* the bodies of save-score: /api/save-score is called with systemId, scores,
\* ruleVersion, details and taskId; any of the three required ones may be missing
ScoreBodies ==
  {[systemId |-> s, scores |-> sc, ruleVersion |-> Some("v1"), details |-> None, taskId |-> k] :
     s \in {"u1", ""}, sc \in {None} \cup {Some(x) : x \in SentScores},
     k \in {None, Some("k1"), Some("k2")}}

TaskIds == {"k1", "k2"}

NextRounds ==
  \E r \in Requests :
    \/ \E body \in ScoreBodies : receiveSaveScore(r, body)
    \/ saveScoreUpsert(r)
    \/ \E id \in TaskIds : receiveDeleteTask(r, id)
    \/ delTaskSystemTools(r)
    \/ delTaskSystemScenarios(r)
    \/ delTaskScores(r)
    \/ delTaskRow(r)
    \/ \E body \in TaskBodies : receiveCreateTask(r, body)
    \/ taskInsert(r)
    \/ cloneReadTools(r)
    \/ cloneInsTools(r)
    \/ cloneInsScens(r)
    \/ cloneReadSystems(r)
    \/ cloneInsSystems(r)
    \/ cloneReadSysTools(r)
    \/ cloneInsSysTools(r)
    \/ cloneReadSysScen(r)
    \/ cloneInsSysScen(r)
    \/ cloneReadScores(r)
    \/ cloneInsScores(r)

SpecRounds == InitStore /\ [][NextRounds]_vars

----------------------------------------------------------------------------
(* Claims about score records and tasks (SpecRounds) *)

\* C13: a score record that save-score has stored is not modified or replaced
\* by a later save-score call for the same system and task: every row of
\* scores present before a save-score statement is still present after it, and
\* the call's own row has been added.
C13_ScoreImmutable ==
  [][\A r \in Requests :
       ( /\ reqs[r].kind = "save-score" /\ reqs[r].pc = "scoreUpsert"
         /\ reqs'[r].pc = "done" )
       => /\ dbScores \subseteq dbScores'
          /\ scorePayload(reqs[r].body, reqs[r].now) \in dbScores']_vars

\* C15: after DELETE /api/tasks/{id} has answered 200, no systems, scores,
\* system_tools or system_scenarios row of that task remains and the tasks row
\* is gone.
C15_DeleteTaskCascade ==
  [][\A r \in Requests :
       ( /\ reqs[r].kind = "delete-task" /\ reqs[r].pc = "delTaskRow"
         /\ reqs'[r].status = 200 )
       => LET id == reqs[r].body.id
          IN /\ id \notin dbTasks'
             /\ \A s \in DOMAIN dbSystems' : dbSystems'[s].task_id # id
             /\ \A x \in dbScores' : x.task_id # id
             /\ \A x \in dbSystemTools' : x.task_id # id
             /\ \A x \in dbSystemScenarios' : x.task_id # id]_vars

----------------------------------------------------------------------------
(* Export and import of the configuration *)

\* the fields of a system that may hold undefined
OptionalFields ==
  {"updatedAt", "alertTotal", "falseAlertTotal", "faultTotal", "faultDetectedTotal",
   "accuracyRate", "discoveryRatePct"}

\* JSON.stringify followed by JSON.parse of a system: a field holding
\* undefined is not written, every other value comes back as it was
jsonOf(s) ==
  [f \in {g \in DOMAIN s : g \in OptionalFields => Has(s[g])} |-> s[f]]

\* the test sanitizeSystem applies to a selected id: the UUID form (its
\* first group may also hold dashes, which no id here does)
uuidShaped(v) == isUUID(v)

\* Number.isFinite(s?.f) ? s.f : 0
finiteOr0(j, f) == IF f \in DOMAIN j THEN j[f] ELSE Some(0)

\* typeof s?.f === "number" ? s.f : undefined
numberOrUndefined(j, f) == IF f \in DOMAIN j THEN j[f] ELSE None

\* {...createDefaultSystem(), ...s, and the fields it normalises}
sanitizeSystem(j) ==
  LET d == createDefaultSystem("sys_new")
      m == [f \in DOMAIN d \cup DOMAIN j |-> IF f \in DOMAIN j THEN j[f] ELSE d[f]]
  IN [m EXCEPT !.selectedToolIds = {id \in @ : uuidShaped(id)},
               !.alertTotal = finiteOr0(j, "alertTotal"),
               !.falseAlertTotal = finiteOr0(j, "falseAlertTotal"),
               !.faultTotal = finiteOr0(j, "faultTotal"),
               !.faultDetectedTotal = finiteOr0(j, "faultDetectedTotal"),
               !.accuracyRate = numberOrUndefined(j, "accuracyRate"),
               !.discoveryRatePct = numberOrUndefined(j, "discoveryRatePct")]

MonitorCategories == {"host", "process", "network", "db", "trans", "link", "data", "client"}

\* normalizeCaps: a name of the table is mapped to its category (a category
\* to itself), any other is dropped
normalizeCaps(caps) == caps \cap MonitorCategories

\* the seed data standard_indicators.json: the indicators of tool n1, listed
\* without ids
standardIndicators ==
  [k \in {"n1"} |-> <<[id |-> None, category |-> Some("host")]>>]

\* `${t.id}_${idx}`
indexedId(t, idx) ==
  IF t = "t1" THEN (IF idx = 0 THEN "t1_0" ELSE "t1_1")
  ELSE IF idx = 0 THEN "tool_tmp_0" ELSE "tool_tmp_1"

\* a tool named in the seed data gets the seed's scenarios, any other keeps
\* its own; the default capabilities are normalised
mergeStandardIndicators(tls) ==
  [t \in DOMAIN tls |->
     LET keys == {k \in DOMAIN standardIndicators : k = t \/ k = tls[t].name}
         scen == IF keys # {}
                 THEN LET std == standardIndicators[CHOOSE k \in keys : TRUE]
                      IN {[id |-> OrElse(std[n].id, indexedId(t, n - 1)),
                           category |-> OrElse(std[n].category, "host")] : n \in 1..Len(std)}
                 ELSE tls[t].scenarios
     IN [tls[t] EXCEPT !.defaultCapabilities = normalizeCaps(@), !.scenarios = scen]]

\* the payload handleExport serialises, as it is read back
fileOf(sys, tls, rt) ==
  [systems |-> [s \in DOMAIN sys |-> jsonOf(sys[s])], tools |-> tls,
   ruleVersion |-> IF rt = NoRules THEN "unknown" ELSE "v1"]

handleExport ==
  /\ exportFile' = Some(fileOf(systems, tools, rules))
  /\ UNCHANGED <<uiVars, histVars, dbVars, outbox, batchVars>>

\* reader.onload for a file handleExport has written
handleImportFile ==
  /\ Has(exportFile)
  /\ LET data == exportFile[1]
     IN /\ systems' = [s \in DOMAIN data.systems |-> sanitizeSystem(data.systems[s])]
        /\ activeSystemId' = IF DOMAIN data.systems # {}
                             THEN CHOOSE s \in DOMAIN data.systems : TRUE
                             ELSE activeSystemId
        /\ tools' = mergeStandardIndicators(data.tools)
  /\ never' = [t \in DOMAIN tools' |-> systems']
  /\ UNCHANGED <<rules, dirtyInfoSystems, dirtyCoverageSystems, dirtyTools, deletedIds,
                 dbVars, outVars, batchVars>>
  /\ Recalc

\* a tool the store has given an id and one the page has just added, each
\* with a scenario
PortCatalog ==
  [t \in {"t1", "tool_tmp"} |->
     IF t = "t1"
     THEN [name |-> "n1", defaultCapabilities |-> {"host"},
           scenarios |-> {[id |-> "t1_0", category |-> "host"]}]
     ELSE [name |-> "n2", defaultCapabilities |-> {"db"},
           scenarios |-> {[id |-> "s_tmp", category |-> "db"]}]]

InitPort ==
  /\ systems = [s \in {"S1"} |-> PageSystem(s)]
  /\ tools = PortCatalog
  /\ activeSystemId = "S1"
  /\ rules = TypicalRules
  /\ scores = calculateScore(systems[activeSystemId], tools, rules)
  /\ dirtyInfoSystems = {} /\ dirtyCoverageSystems = {} /\ dirtyTools = FALSE
  /\ never = [t \in DOMAIN tools |-> systems]
  /\ deletedIds = {}
  /\ NoStore /\ outbox = {} /\ exportFile = <<>> /\ NoBatch

NextPort ==
  \/ \E t \in DOMAIN PortCatalog : toggleTool(t)
  \/ \E t \in DOMAIN PortCatalog :
       \E c \in PortCatalog[t].defaultCapabilities : toggleToolCapability(t, c)
  \/ \E t \in DOMAIN PortCatalog : \E sc \in PortCatalog[t].scenarios : toggleScenario(sc.id)
  \/ handleExport
  \/ handleImportFile

SpecPort == InitPort /\ [][NextPort]_vars

\* C14: importing the file that handleExport has just written of the present
\* state leaves every system with the score it had: calculateScore of the
\* imported system over the imported tools equals calculateScore of the live
\* system over the live tools, temporary ids included.
C14_RoundTripScore ==
  [][(handleImportFile /\ exportFile = Some(fileOf(systems, tools, rules)))
       => \A s \in DOMAIN systems :
            /\ s \in DOMAIN systems'
            /\ calculateScore(systems'[s], tools', rules')
                 = calculateScore(systems[s], tools, rules)]_vars

----------------------------------------------------------------------------
(* Claims about part 1 (SpecScore) *)

\* the mandatory capabilities granted to a selected tool of the active system
C16_Granted ==
  LET s == systems[activeSystemId]
  IN {c \in {"host", "process", "network", "db", "trans"} :
        \E t \in s.selectedToolIds \cap DOMAIN s.toolCapabilities : c \in s.toolCapabilities[t]}

\* the place of a capability in the order host, process, network, db, trans
C16_Rank(c) ==
  CASE c = "host" -> 1 [] c = "process" -> 2 [] c = "network" -> 3 [] c = "db" -> 4
    [] c = "trans" -> 5 [] OTHER -> 6

\* C16: missingCaps lists exactly the mandatory capabilities that no selected
\* tool with a non-empty capability list grants, each once and in the order
\* host, process, network, db, trans; a capability recorded only for tools
\* that are not selected is listed as missing.
C16_MissingCaps ==
  LET m == scores.missingCaps
      s == systems[activeSystemId]
  IN /\ {m[i] : i \in 1..Len(m)} = {"host", "process", "network", "db", "trans"} \ C16_Granted
     /\ \A i, j \in 1..Len(m) : i < j => C16_Rank(m[i]) < C16_Rank(m[j])
     /\ \A t \in DOMAIN s.toolCapabilities \ s.selectedToolIds :
          \A c \in s.toolCapabilities[t] \cap {"host", "process", "network", "db", "trans"} :
            c \notin C16_Granted => \E i \in 1..Len(m) : m[i] = c

\* one tool selected with host, the other not selected with db and trans recorded
C16_Witness ==
  LET s == systems[activeSystemId]
  IN /\ s.selectedToolIds = {"T1"}
     /\ capsOf(s, "T1") = {"host"}
     /\ capsOf(s, "T2") = {"db", "trans"}
     /\ scores.missingCaps = <<"process", "network", "db", "trans">>

\* covered / total >= pct / 100, for total # 0
C17_RatioGE(covered, total, pct) ==
  IF total > 0 THEN covered * 100 >= pct * total ELSE covered * 100 <= pct * total

\* the coverage penalty in points
C17_Penalty(covered, total) ==
  IF total = 0 THEN 10
  ELSE IF C17_RatioGE(covered, total, 95) THEN 0
  ELSE IF C17_RatioGE(covered, total, 70) THEN 3
  ELSE IF C17_RatioGE(covered, total, 50) THEN 7
  ELSE 10

\* the package tier deduction in points
C17_Tier(missing) ==
  CASE missing = 0 -> 0 [] missing = 1 -> 3 [] missing = 2 -> 7 [] OTHER -> 10

\* 45 - tier deduction - 10 per missing capability - the two coverage
\* penalties + 5 when self-built, in hundredths
C17_Base ==
  LET s == systems[activeSystemId]
      missing == Len(scores.missingCaps)
  IN Pts(45 - C17_Tier(missing) - 10 * missing
         - C17_Penalty(s.serverCovered, s.serverTotal)
         - C17_Penalty(s.appCovered, s.appTotal)
         + (IF s.isSelfBuilt THEN 5 ELSE 0))

\* C17: the base sub-total of part 1 is 45 minus the package tier deduction
\* (0, 3, 7, 10 for 0, 1, 2, 3 or more missing capabilities) minus 10 per
\* missing capability minus the server and application coverage penalties
\* plus 5 when self-built, and part1 is that sub-total plus the
\* standardization average and the documentation bonus, rounded and clamped
\* to [0, 60]; with no capability missing it is 45 minus the two coverage
\* penalties plus the bonus.
C17_BaseSubtotal ==
  LET s == systems[activeSystemId]
      avg == score1_2(s, tools, rules)
  IN /\ score1(s) = C17_Base
     /\ scores.part1 =
          Max(0, Min(Pts(60),
                     Round1Frac((C17_Base + score1_3(s, rules)) * avg.den + avg.num, avg.den)))
     /\ scores.missingCaps = <<>>
          => C17_Base = Pts(45 - C17_Penalty(s.serverCovered, s.serverTotal)
                              - C17_Penalty(s.appCovered, s.appTotal)
                              + (IF s.isSelfBuilt THEN 5 ELSE 0))

\* one capability missing, servers half covered, part1 inside its range
C17_Witness ==
  LET s == systems[activeSystemId]
  IN /\ Len(scores.missingCaps) = 1
     /\ s.serverTotal = 4 /\ s.serverCovered = 2
     /\ scores.part1 > 0 /\ scores.part1 < Pts(60)

\* the deduction the tiers give a pair with `checked` of `n` scenarios
\* checked: 0 when all are checked, else the first defined tier that the
\* fraction reaches, else the tier below 0.3, else 10
C18_Deduction(checked, n) ==
  IF checked >= n THEN 0
  ELSE IF checked * 10 >= 7 * n /\ Has(rules.stdGe07) THEN rules.stdGe07[1]
  ELSE IF checked * 10 >= 5 * n /\ Has(rules.stdGe05) THEN rules.stdGe05[1]
  ELSE IF checked * 10 >= 3 * n /\ Has(rules.stdGe03) THEN rules.stdGe03[1]
  ELSE IF Has(rules.stdLt03) THEN rules.stdLt03[1]
  ELSE Pts(10)

\* C18: every participating (tool, capability) pair of the active system
\* scores max(0, basePoints - deduction) with the deduction of the first
\* matching tier; a fully checked pair has deduction 0 and scores basePoints
\* under every rule table, and the fallback 10 is only for a partially
\* checked pair that no tier matches.
C18_PairScore ==
  LET s == systems[activeSystemId]
      base == OrElse(rules.stdBase, Pts(10))
  IN \A p \in capPairs(s, tools) :
       LET relevant == relevantOf(tools[p[1]], p[2])
           checked == Cardinality({sc \in relevant : sc.id \in s.checkedScenarioIds})
       IN /\ capScore(s, tools, rules, p)
               = Max(0, base - C18_Deduction(checked, Cardinality(relevant)))
          /\ checked = Cardinality(relevant) => capScore(s, tools, rules, p) = base

----------------------------------------------------------------------------
(* Claims about part 3 (SpecScore) *)

\* the ops-lead points by the flag alone: the configured points (default 5)
\* when it is set, none when it is not
C19_ByFlag ==
  IF systems[activeSystemId].opsLeadConfigured = "full"
  THEN OrElse(rules.opsTrueScore, Pts(5)) ELSE 0

\* C19: the ops-lead component of part3 is awarded only when the flag is set:
\* under every rule table a system with opsLeadConfigured = missing gets 0
\* ops-lead points and one with opsLeadConfigured = full gets the configured
\* points (default 5), and part3 is built on that component.
C19_OpsLeadByFlag ==
  LET s == systems[activeSystemId]
  IN /\ opsLeadScore(s, rules) = C19_ByFlag
     /\ scores.part3 = Max(0, C19_ByFlag + dataMonitorScore(s, rules))

\* max(0, 5 - min(cap, deductPerItem * missingMonitorItems)) for full and
\* for missing, the flat value of the table for na
C20_ByFormula ==
  LET s == systems[activeSystemId]
  IN IF s.dataMonitorConfigured \in {"full", "missing"}
     THEN Max(0, Pts(5) - Min(OrElse(rules.dataItemCap, Pts(5)),
                              OrElse(rules.dataItemPer, Pts(1)) * s.missingMonitorItems))
     ELSE OrElse(rules.dataFalseScore, 0)

\* C20: under every rule table the data-monitor component of part3 is, for
\* full and for missing alike, max(0, 5 - min(cap, deductPerItem *
\* missingMonitorItems)) with defaults 1 and 5, floored at 0 before it is
\* added to the ops-lead points, and for na the table's flat value (default 0).
C20_DataMonitorFormula ==
  LET s == systems[activeSystemId]
  IN /\ dataMonitorScore(s, rules) = C20_ByFormula
     /\ scores.part3 = Max(0, opsLeadScore(s, rules) + C20_ByFormula)

----------------------------------------------------------------------------
(* Claims about part 4 (SpecScore) *)

\* max(0, 5 - min(cap, count * deductPerItem)) for late responses
C21_Response(s) ==
  Max(0, Pts(5) - Min(OrElse(rules.respCap, Pts(5)),
                      s.lateResponseCount * OrElse(rules.respPer, 250)))

\* max(0, 5 - min(cap, count * deductPerItem)) for overdue rectifications
C21_Rectification(s) ==
  Max(0, Pts(5) - Min(OrElse(rules.rectCap, Pts(5)),
                      s.overdueCount * OrElse(rules.rectPer, Pts(1))))

\* C21: part4 is the response component plus the rectification component,
\* each within [0, 5], so that part4 is within [0, 10] for every
\* lateResponseCount and overdueCount, negative ones included, and one more
\* late response or one more overdue item never gives a higher part4.
C21_Part4Range ==
  LET s == systems[activeSystemId]
  IN /\ scores.part4 = C21_Response(s) + C21_Rectification(s)
     /\ C21_Response(s) >= 0 /\ C21_Response(s) <= Pts(5)
     /\ C21_Rectification(s) >= 0 /\ C21_Rectification(s) <= Pts(5)
     /\ scores.part4 >= 0 /\ scores.part4 <= Pts(10)
     /\ part4Of([s EXCEPT !.lateResponseCount = @ + 1], rules) <= scores.part4
     /\ part4Of([s EXCEPT !.overdueCount = @ + 1], rules) <= scores.part4

----------------------------------------------------------------------------
(* Claims about the id maps of save-config (SpecStore) *)

\* C25: when save-config has inserted the scenarios of a tool, scenarioIdMap
\* takes each temporary scenario id to the id of the tool_scenarios row that
\* was inserted for that scenario (a row of its metric), and two different
\* scenarios of the tool to two different ids, whatever the order of durable
\* and temporary ids in the list.
C25_ScenarioIdMap ==
  [][\A r \in Requests :
       ( /\ reqs[r].kind = "save-config" /\ reqs[r].pc = "scenInsert"
         /\ reqs'[r].pc # "scenInsert" /\ reqs'[r].status # 500 )
       => LET scs == reqs[r].body.tools[reqs[r].i].scenarios
              map == reqs'[r].scenarioIdMap
          IN /\ \A j \in 1..Len(scs) :
                  /\ scs[j].id \in DOMAIN map
                  /\ map[scs[j].id] \in DOMAIN dbToolScenarios'
                  /\ dbToolScenarios'[map[scs[j].id]].metric = scs[j].metric
             /\ \A j, m \in 1..Len(scs) :
                  scs[j].id # scs[m].id => map[scs[j].id] # map[scs[m].id]]_vars

----------------------------------------------------------------------------
(* Claims about tasks in the store (SpecStore) *)

\* the task of a stored system, if the system is stored
C28_TaskOf(S, id) == IF id \in DOMAIN S THEN Some(S[id].task_id) ELSE None

\* C28: save-config keeps tasks apart: every system_tools and
\* system_scenarios row that a save-config step writes carries the task_id of
\* the system it references (also when that system was found by its name for
\* a temporary id), and a step of a save into task T neither rewrites the
\* systems row nor removes a link row of a system of another task.
C28_TaskIsolation ==
  [][\A r \in Requests :
       ( /\ reqs[r].kind = "save-config" /\ reqs'[r] # reqs[r] )
       => LET T == reqs[r].body.taskId[1]
          IN /\ \A x \in (dbSystemTools' \ dbSystemTools)
                        \cup (dbSystemScenarios' \ dbSystemScenarios) :
                  C28_TaskOf(dbSystems', x.system_id) = Some(x.task_id)
             /\ \A s \in DOMAIN dbSystems :
                  dbSystems[s].task_id # T
                  => /\ s \in DOMAIN dbSystems' /\ dbSystems'[s] = dbSystems[s]
                     /\ \A x \in (dbSystemTools \ dbSystemTools')
                                \cup (dbSystemScenarios \ dbSystemScenarios') :
                          x.system_id # s]_vars

----------------------------------------------------------------------------
(* Claims about cloned tasks (SpecRounds) *)

\* the scenarios a system has checked in a task, each named by the name of
\* its tool and its metric, counting only scenarios of tools of that task
C29_Checked(S, T, TS, sys, task) ==
  {<<T[TS[x.scenario_id].tool_id].name, TS[x.scenario_id].metric>> :
     x \in {y \in S : /\ y.system_id = sys /\ y.task_id = task /\ y.checked
                       /\ y.scenario_id \in DOMAIN TS
                       /\ TS[y.scenario_id].task_id = task
                       /\ TS[y.scenario_id].tool_id \in DOMAIN T}}

\* C29: when POST /api/tasks with cloneFrom answers 200, every system_tools
\* row of the new task references a system and a tool of the new task, every
\* system_scenarios row of the new task references a tool_scenarios row of
\* the new task, and each copied system has checked, among the scenarios of
\* the copied tools, those the source system had checked.
C29_CloneSelfContained ==
  [][\A r \in Requests :
       ( /\ reqs[r].kind = "create-task" /\ Has(reqs[r].body.cloneFrom)
         /\ reqs[r].status = 0 /\ reqs'[r].status = 200 )
       => LET N == reqs[r].newTaskId
              src == reqs[r].body.cloneFrom[1]
          IN /\ \A x \in dbSystemTools' :
                  x.task_id = N
                  => /\ x.system_id \in DOMAIN dbSystems'
                     /\ dbSystems'[x.system_id].task_id = N
                     /\ x.tool_id \in DOMAIN dbTools'
                     /\ dbTools'[x.tool_id].task_id = N
             /\ \A x \in dbSystemScenarios' :
                  x.task_id = N
                  => /\ x.scenario_id \in DOMAIN dbToolScenarios'
                     /\ dbToolScenarios'[x.scenario_id].task_id = N
             /\ \A s \in DOMAIN reqs'[r].sysMap :
                  C29_Checked(dbSystemScenarios', dbTools', dbToolScenarios',
                              reqs'[r].sysMap[s], N)
                    = C29_Checked(dbSystemScenarios', dbTools', dbToolScenarios', s, src)]_vars

----------------------------------------------------------------------------
(* saveSystemsBatch: the submit button of the page against the store *)

\* In this part systems and tools are the arrays the page holds: sequences of
\* records, a tool with its scenarios in order.

\* arr.find(x => x.id === id): the index of the first match, 0 when none
findIndex(arr, id) ==
  LET J == {j \in 1..Len(arr) : arr[j].id = id}
  IN IF J = {} THEN 0 ELSE CHOOSE j \in J : \A m \in J : j <= m

\* the tools array as calculateScore reads it: by id, the scenarios of a tool
\* as the collection it filters
asCatalog(arr) ==
  [id \in {arr[j].id : j \in 1..Len(arr)} |->
     LET t == arr[findIndex(arr, id)]
     IN [name |-> t.name, defaultCapabilities |-> t.defaultCapabilities,
         scenarios |-> {t.scenarios[m] : m \in 1..Len(t.scenarios)}]]

\* useMemo(() => calculateScore(activeSystem, tools)) over the arrays
arrayScores(sysArr, toolArr, active) ==
  LET j == findIndex(sysArr, active)
  IN CHOOSE sc \in {scoresMemo(data, cat, rules) :
                      data \in {IF j # 0 THEN sysArr[j]
                                ELSE IF Len(sysArr) > 0 THEN sysArr[1]
                                ELSE createDefaultSystem("sys_default")},
                      cat \in {asCatalog(toolArr)}} : TRUE

\* the system of the current iteration: sys, and mappedSys once the response
\* of save-config has replaced it in updatedSystems
sysOf(b) == b.updatedSystems[b.at]

\* the body of the save-config request of the current iteration
configPayload(b) ==
  [system |-> sysOf(b), tools |-> b.toolsToSend,
   checkedScenarioIds |-> sysOf(b).checkedScenarioIds,
   expectedUpdatedAt |-> sysOf(b).updatedAt, taskId |-> Some(activeTaskId)]

\* mappedSys: the system under the ids that this response carries
mappedSys(sys, data) ==
  LET tc == sys.toolCapabilities
      key(tid) == mapped(data.toolIdMap, tid)
  IN [sys EXCEPT
        !.id = IF data.targetSystemId # "" THEN data.targetSystemId ELSE sys.id,
        !.updatedAt = IF Has(data.updatedAt) THEN data.updatedAt ELSE sys.updatedAt,
        !.selectedToolIds = {key(tid) : tid \in sys.selectedToolIds},
        !.toolCapabilities = [k \in {key(tid) : tid \in DOMAIN tc} |->
                                tc[CHOOSE tid \in DOMAIN tc : key(tid) = k]],
        !.checkedScenarioIds = {mapped(data.scenarioIdMap, sid) :
                                  sid \in sys.checkedScenarioIds}]

\* scoreInputs: the eighteen inputs copied into details
scoreInputs(m) ==
  [alertTotal |-> m.alertTotal, falseAlertTotal |-> m.falseAlertTotal,
   accuracyRate |-> m.accuracyRate, accuracy |-> m.accuracy,
   faultTotal |-> m.faultTotal, faultDetectedTotal |-> m.faultDetectedTotal,
   discoveryRatePct |-> m.discoveryRatePct, discoveryRate |-> m.discoveryRate,
   dataMonitorConfigured |-> m.dataMonitorConfigured,
   missingMonitorItems |-> m.missingMonitorItems,
   lateResponseCount |-> m.lateResponseCount, overdueCount |-> m.overdueCount,
   serverTotal |-> m.serverTotal, serverCovered |-> m.serverCovered,
   appTotal |-> m.appTotal, appCovered |-> m.appCovered,
   documentedItems |-> m.documentedItems, isSelfBuilt |-> m.isSelfBuilt]

\* the body of the save-score request for the mapped system m
scoreBody(m, finalScore) ==
  [systemId |-> m.id, scores |-> Some(finalScore), ruleVersion |-> Some("v1"),
   details |-> Some(finalScore @@ [inputs |-> scoreInputs(m)]),
   taskId |-> Some(activeTaskId)]

\* updatedTools.map(...) after the loop, under the accumulated maps
remapTools(b) ==
  IF DOMAIN b.toolIdMap # {} \/ DOMAIN b.scenarioIdMap # {}
  THEN [j \in 1..Len(b.updatedTools) |->
          [b.updatedTools[j] EXCEPT
             !.id = mapped(b.toolIdMap, @),
             !.scenarios = [m \in 1..Len(@) |->
                              [@[m] EXCEPT !.id = mapped(b.scenarioIdMap, @)]]]]
  ELSE b.updatedTools

\* the updater of the two dirty sets: the saved ids leave, an id that was
\* renamed and is still in the set is replaced by its new id
afterSave(prev, b) ==
  LET next == prev \ b.savedIds
      renamed == {old \in DOMAIN b.systemIdMap : old \in next}
  IN (next \ renamed) \cup {b.systemIdMap[old] : old \in renamed}

\* how many times the submit button is pressed
MaxRuns == 2

\* res.ok
resOk_any(status) == TRUE

resOk(status) == status \in 200..299

\* an entry of the history of a run: the request of iteration j is sent, its
\* response arrives with a status, or its fetch rejects
Event(ev, api, j, status) == [ev |-> ev, api |-> api, i |-> j, status |-> status]

\* finally { setSaving(false); setProgressText("") }
Finally_skipped == UNCHANGED <<saving, progressText>>

Finally == saving' = FALSE /\ progressText' = ""

\* setConflictMsg(msg); setSaving(false); setProgressText(""); return;
\* finally repeats the two resets
earlyReturn(b, msg) ==
  /\ conflictMsg' = msg /\ saving' = FALSE /\ progressText' = ""
  /\ batch' = [b EXCEPT !.pc = "idle", !.outcome = "failed"]
  /\ UNCHANGED uiVars

\* catch (e) and finally
caught(b) ==
  /\ conflictMsg' = "network or permission"
  /\ Finally
  /\ batch' = [b EXCEPT !.pc = "idle", !.outcome = "threw"]
  /\ UNCHANGED uiVars

\* the statements after the loop, and finally
finish(b, msg) ==
  /\ tools' = remapTools(b)
  /\ systems' = b.updatedSystems
  /\ dirtyInfoSystems' = afterSave(dirtyInfoSystems, b)
  /\ dirtyCoverageSystems' = afterSave(dirtyCoverageSystems, b)
  /\ dirtyTools' = FALSE
  /\ activeSystemId' = mapped(b.systemIdMap, activeSystemId)
  /\ scores' = arrayScores(systems', tools', activeSystemId')
  /\ conflictMsg' = msg
  /\ Finally
  /\ batch' = [b EXCEPT !.pc = "idle", !.outcome = "saved"]
  /\ UNCHANGED rules

\* the loop from iteration b.i on, up to the fetch of save-config it awaits
\* next or, when no iteration is left, through the end of the function; an
\* id that is not in updatedSystems is skipped (continue)
runLoop(b, msg, sv) ==
  LET n == Len(b.targetIds)
      found == {j \in b.i..n : findIndex(b.updatedSystems, b.targetIds[j]) # 0}
  IN IF found = {} THEN finish(b, msg)
     ELSE \E j \in {k \in found : \A m \in found : k <= m} :
          \E c \in {[b EXCEPT !.i = j,
                               !.at = findIndex(b.updatedSystems, b.targetIds[j])]} :
          \E sys \in {sysOf(c)} : \E cat \in {asCatalog(c.updatedTools)} :
             IF calculateScoreThrows(sys, cat)
             THEN caught(c)
             ELSE /\ progressText' = ToString(j) \o "/" \o ToString(n)
                  /\ saving' = sv
                  /\ conflictMsg' = msg
                  /\ batch' = [c EXCEPT !.pc = "awaitConfig",
                                        !.body = Some(configPayload(c)),
                                        !.log = Append(@, Event("sent", "save-config", j, 0))]
                  /\ UNCHANGED uiVars

\* the ids the submit button passes: the union of the two dirty sets in the
\* order of the Set, else the first system when only the tools are dirty
targetsOf(targetIds) ==
  LET targetSet == dirtyInfoSystems \cup dirtyCoverageSystems
  IN IF targetSet # {}
     THEN /\ Len(targetIds) = Cardinality(targetSet)
          /\ {targetIds[j] : j \in 1..Len(targetIds)} = targetSet
     ELSE IF dirtyTools /\ Len(systems) > 0 THEN targetIds = <<systems[1].id>>
     ELSE targetIds = <<>>

\* the locals of saveSystemsBatch as the call starts
startedBatch(targetIds) ==
  [pc |-> "start", run |-> batch.run + 1, targetIds |-> targetIds, i |-> 1, at |-> 0,
   body |-> <<>>,
   updatedSystems |-> systems, updatedTools |-> tools,
   toolsToSend |-> IF dirtyTools THEN tools ELSE <<>>,
   toolIdMap |-> NoMap, scenarioIdMap |-> NoMap, savedIds |-> {}, systemIdMap |-> NoMap,
   outcome |-> "running", log |-> <<>>, returned |-> [k \in {} |-> None],
   started |-> systems]

\* onClick of the submit button, which is disabled while saving, and
\* saveSystemsBatch up to its first await
submit(targetIds) ==
  /\ ~saving
  /\ batch.run < MaxRuns
  /\ targetsOf(targetIds)
  /\ IF targetIds = <<>>
     THEN /\ conflictMsg' = "nothing to submit"
          /\ UNCHANGED <<uiVars, saving, progressText, batch>>
     ELSE \E b \in {startedBatch(targetIds)} : runLoop(b, "", TRUE)
  /\ UNCHANGED <<histVars, dbVars, outVars>>

\* the request that fetch was called with reaches the handler
deliverSaveConfig ==
  /\ batch.pc = "awaitConfig"
  /\ receiveSaveConfig("r1", batch.body[1])

deliverSaveScore ==
  /\ batch.pc = "awaitScore"
  /\ receiveSaveScore("r1", batch.body[1])

\* the response of save-config: the two returns on a failure, else the ids
\* of the response are merged and applied and save-score is called
configResponse ==
  /\ batch.pc = "awaitConfig"
  /\ reqs["r1"].pc = "done"
  /\ \E data \in {reqs["r1"]} :
     \E b \in {[batch EXCEPT !.log = Append(@, Event("response", "save-config", batch.i,
                                                     data.status))]} :
     \E sys \in {sysOf(b)} :
        IF data.status = 409 THEN earlyReturn(b, "conflict")
        ELSE IF ~resOk(data.status) THEN earlyReturn(b, "save failed")
        ELSE \E m \in {mappedSys(sys, data)} :
             \E finalScore \in {calculateScore(m, cat, rules) :
                                  cat \in {asCatalog(b.updatedTools)}} :
                /\ batch' =
                     [b EXCEPT
                        !.toolIdMap = [k \in DOMAIN @ \cup DOMAIN data.toolIdMap |->
                                         IF k \in DOMAIN data.toolIdMap
                                         THEN data.toolIdMap[k] ELSE @[k]],
                        !.scenarioIdMap = [k \in DOMAIN @ \cup DOMAIN data.scenarioIdMap |->
                                             IF k \in DOMAIN data.scenarioIdMap
                                             THEN data.scenarioIdMap[k] ELSE @[k]],
                        !.systemIdMap = IF m.id # sys.id THEN Put(@, sys.id, m.id) ELSE @,
                        !.updatedSystems = [j \in 1..Len(@) |->
                                              IF @[j].id = sys.id THEN m ELSE @[j]],
                        !.returned = Put(@, m.id, data.updatedAt),
                        !.pc = "awaitScore",
                        !.body = Some(scoreBody(m, finalScore)),
                        !.log = Append(@, Event("sent", "save-score", b.i, 0))]
                /\ UNCHANGED <<uiVars, saving, progressText, conflictMsg>>
  /\ reqs' = [reqs EXCEPT !["r1"] = IdleRequest]
  /\ UNCHANGED <<histVars, outVars, tables, roundVars, clock, issued, everScenarioOf>>

\* the response of save-score: the return on a failure, else the system is
\* saved, the tools are not sent again, and the loop goes on
scoreResponse ==
  /\ batch.pc = "awaitScore"
  /\ reqs["r1"].pc = "done"
  /\ \E b \in {[batch EXCEPT !.log = Append(@, Event("response", "save-score", batch.i,
                                                     reqs["r1"].status))]} :
        IF ~resOk(reqs["r1"].status) THEN earlyReturn(b, "score failed")
        ELSE \E c \in {[b EXCEPT !.savedIds = @ \cup {sysOf(b).id},
                                  !.toolsToSend = <<>>,
                                  !.i = @ + 1]} :
                runLoop(c, conflictMsg, saving)
  /\ reqs' = [reqs EXCEPT !["r1"] = IdleRequest]
  /\ UNCHANGED <<histVars, outVars, tables, roundVars, clock, issued, everScenarioOf>>

\* fetch rejects: the request did not reach the handler, or its response
\* did not come back
fetchThrows ==
  /\ batch.pc \in {"awaitConfig", "awaitScore"}
  /\ reqs["r1"].pc \in {"idle", "done"}
  /\ \E b \in {[batch EXCEPT !.log = Append(@, Event("threw",
                                                     IF batch.pc = "awaitConfig"
                                                     THEN "save-config" ELSE "save-score",
                                                     batch.i, 0))]} : caught(b)
  /\ reqs' = [reqs EXCEPT !["r1"] = IdleRequest]
  /\ UNCHANGED <<histVars, outVars, tables, roundVars, clock, issued, everScenarioOf>>

\* the statements whose error the handlers throw on
ThrowingSteps ==
  {"sysInsert", "sysUpdate", "toolInsert", "toolUpsert", "scenInsert",
   "insSystemTools", "insSystemScenarios", "scoreUpsert"}

\* a statement returns an error: the handler's catch answers 500
statementFails(r) ==
  /\ reqs[r].pc \in ThrowingSteps
  /\ reqs' = [reqs EXCEPT ![r] = Respond(reqs[r], 500)]
  /\ UNCHANGED <<uiVars, histVars, outVars, batchVars, tables, roundVars, clock, issued,
                 everScenarioOf>>

\* a system as the page holds it: the defaults of createDefaultSystem with the
\* columns of its row
LocalSystem(id, name, updatedAt) ==
  [createDefaultSystem(id) EXCEPT !.updatedAt = updatedAt, !.isSelfBuilt = TRUE,
                                  !.serverTotal = 4, !.serverCovered = 4,
                                  !.appTotal = 1, !.appCovered = 1]
  @@ [name |-> name, tier |-> "A", serverCoverage |-> "full", appCoverage |-> "full"]

\* a tool added on the page and not yet stored, with one scenario
TempTool ==
  [id |-> "tool_tmp", name |-> "n2", defaultCapabilities |-> {"host"},
   scenarios |-> <<Scenario("s_tmp", "mem")>>]

\* what the systems of a start state select: nothing, the stored tool, or
\* the tool added on the page
Selections ==
  [none |-> [selectedToolIds |-> {}, toolCapabilities |-> NoCaps, checkedScenarioIds |-> {}],
   stored |-> [selectedToolIds |-> {"t1"}, toolCapabilities |-> HostCaps("t1"),
               checkedScenarioIds |-> {"c1"}],
   temp |-> [selectedToolIds |-> {"tool_tmp"}, toolCapabilities |-> HostCaps("tool_tmp"),
             checkedScenarioIds |-> {"s_tmp"}]]

Selected(s, sel) ==
  [s EXCEPT !.selectedToolIds = sel.selectedToolIds,
            !.toolCapabilities = sel.toolCapabilities,
            !.checkedScenarioIds = sel.checkedScenarioIds]

\* no call of saveSystemsBatch has been made
FreshBatch ==
  [pc |-> "idle", run |-> 0, targetIds |-> <<>>, i |-> 1, at |-> 0, body |-> <<>>,
   updatedSystems |-> <<>>, updatedTools |-> <<>>, toolsToSend |-> <<>>,
   toolIdMap |-> NoMap, scenarioIdMap |-> NoMap, savedIds |-> {}, systemIdMap |-> NoMap,
   outcome |-> "none", log |-> <<>>, returned |-> [k \in {} |-> None],
   started |-> <<>>]

\* the page has loaded task k1 with systems u1 and u2 and tool t1; since then
\* a row may have been saved by someone else (the page holds version 0 of
\* it), a system or a tool may have been added on the page, and systems
\* have been edited
InitBatch ==
  /\ \E second \in {LocalSystem("u2", "sysB", Some(1)), LocalSystem("u2", "sysB", Some(0)),
                    LocalSystem("sys_tmp", "sysC", None)} :
       \E v \in {0, 1} : \E k \in {"none", "stored", "temp"} :
         systems = <<Selected(LocalSystem("u1", "sysA", Some(v)), Selections[k]),
                     Selected(second, Selections[k])>>
  /\ tools \in {<<StoredTool>>, <<StoredTool, TempTool>>}
  /\ systems[1].selectedToolIds \subseteq {tools[j].id : j \in 1..Len(tools)}
  /\ activeSystemId = "u1"
  /\ rules = TypicalRules
  /\ scores = arrayScores(systems, tools, activeSystemId)
  /\ dirtyInfoSystems \in SUBSET {systems[j].id : j \in 1..Len(systems)}
  /\ dirtyCoverageSystems = {}
  /\ dirtyTools \in BOOLEAN
  /\ Len(tools) > 1 => dirtyTools
  /\ never = [t \in {} |-> {}] /\ deletedIds = {}
  /\ dbSystems = [id \in {"u1", "u2"} |->
                    systemColumns(LocalSystem(id, IF id = "u1" THEN "sysA" ELSE "sysB", None),
                                  1, "k1")]
  /\ dbTools = [id \in {"t1"} |-> toolColumns(StoredTool, 1, "k1")]
  /\ dbToolScenarios = [id \in {"c1"} |->
                          [tool_id |-> "t1", category |-> "host", metric |-> "cpu",
                           threshold |-> "", level |-> "gray", task_id |-> "k1"]]
  /\ dbSystemTools = {} /\ dbSystemScenarios = {}
  /\ dbScores = {}
  /\ dbTasks = {"k1", "k2"}
  /\ clock = 2
  /\ issued = 0
  /\ everScenarioOf = {<<"c1", "t1">>}
  /\ reqs = [r \in Requests |-> IdleRequest]
  /\ outbox = {} /\ exportFile = <<>>
  /\ saving = FALSE /\ progressText = "" /\ conflictMsg = ""
  /\ batch = FreshBatch

\* the arrays of ids the button can pass
MaxTargets == 2

TargetOrders ==
  LET Ids == {"u1", "u2", "sys_tmp"} \cup {GenPool[j] : j \in 1..Len(GenPool)}
  IN UNION {{s \in [1..n -> Ids] : \A j, m \in 1..n : j # m => s[j] # s[m]} :
              n \in 0..MaxTargets}

NextBatch ==
  \/ \E targetIds \in TargetOrders : submit(targetIds)
  \/ deliverSaveConfig
  \/ configResponse
  \/ deliverSaveScore
  \/ scoreResponse
  \/ fetchThrows
  \/ \E r \in Requests :
       \/ saveSysByName(r)
       \/ saveSysInsert(r)
       \/ saveSysCheck(r)
       \/ saveSysUpdate(r)
       \/ saveToolByName(r)
       \/ saveToolInsert(r)
       \/ saveToolUpsert(r)
       \/ saveScenDelete(r)
       \/ saveScenInsert(r)
       \/ saveDelSystemTools(r)
       \/ saveDelSystemScenarios(r)
       \/ saveInsSystemTools(r)
       \/ saveInsSystemScenarios(r)
       \/ saveReadBack(r)
       \/ saveScoreUpsert(r)
       \/ statementFails(r)

SpecBatch == InitBatch /\ [][NextBatch]_vars

\* what goes on without the user: the handlers take their next step, and a
\* fetch that was called is delivered and answered, or rejects
Continue ==
  \/ deliverSaveConfig
  \/ configResponse
  \/ deliverSaveScore
  \/ scoreResponse
  \/ fetchThrows
  \/ \E r \in Requests :
       \/ saveSysByName(r)
       \/ saveSysInsert(r)
       \/ saveSysCheck(r)
       \/ saveSysUpdate(r)
       \/ saveToolByName(r)
       \/ saveToolInsert(r)
       \/ saveToolUpsert(r)
       \/ saveScenDelete(r)
       \/ saveScenInsert(r)
       \/ saveDelSystemTools(r)
       \/ saveDelSystemScenarios(r)
       \/ saveInsSystemTools(r)
       \/ saveInsSystemScenarios(r)
       \/ saveReadBack(r)
       \/ saveScoreUpsert(r)
       \/ statementFails(r)

\* the same program where a promise that is awaited is settled in the end:
\* the store answers every request and the event loop runs every continuation
SpecBatchLive == InitBatch /\ [][NextBatch]_vars /\ WF_vars(Continue)

----------------------------------------------------------------------------
(* Claims about saveSystemsBatch (SpecBatch) *)

\* an entry of the history after which the run has failed: a response that
\* is not ok, or a fetch that rejected
C22_Failure(e) ==
  \/ e.ev = "threw"
  \/ e.ev = "response" /\ e.status \notin 200..299

\* C22: in a run of saveSystemsBatch the save-score request of a system is
\* sent only right after the save-config request of that system was answered
\* with success, and once a request of the run has failed (409, another
\* error status, or a rejected fetch) the run sends no further request
C22_ScoreAfterConfig ==
  LET log == batch.log
  IN \A j \in 1..Len(log) :
       /\ (log[j].ev = "sent" /\ log[j].api = "save-score")
            => /\ j > 1
               /\ log[j - 1] = Event("response", "save-config", log[j].i, 200)
       /\ C22_Failure(log[j]) => j = Len(log)

\* a run that saved its first system and then was stopped by a conflict on
\* its second
C22_Witness ==
  LET log == batch.log
  IN /\ batch.pc = "idle"
     /\ Len(log) = 6
     /\ log[3] = Event("sent", "save-score", 1, 0)
     /\ log[4] = Event("response", "save-score", 1, 200)
     /\ log[6] = Event("response", "save-config", 2, 409)

\* C23: every run of saveSystemsBatch that has set saving ends with saving
\* false and an empty progress text, whatever its requests are answered
\* with; saving is true for as long as a run goes on, and the submit button
\* starts a run only while saving is false
C23_SavingEnds ==
  /\ saving ~> (~saving /\ progressText = "" /\ batch.pc = "idle")
  /\ [](batch.pc # "idle" => saving)
  /\ [][batch'.run # batch.run => ~saving]_vars

\* a run that saved a system and then ended on a rejected fetch
C23_Witness ==
  /\ batch.outcome = "threw"
  /\ batch.savedIds # {}
  /\ ~saving /\ progressText = ""

\* what a system of the run selected when the run started, its id in the
\* store, and the system as the page holds it now
C24_Kept(j) ==
  LET old == batch.started[findIndex(batch.started, batch.targetIds[j])]
      id == mapped(batch.systemIdMap, old.id)
      now == systems[findIndex(systems, id)]
  IN \A tid \in old.selectedToolIds \cap DOMAIN batch.toolIdMap :
       ~isUUID(tid) =>
         /\ \E row \in dbSystemTools : /\ row.system_id = id
                                       /\ row.tool_id = batch.toolIdMap[tid]
                                       /\ row.task_id = activeTaskId
         /\ batch.toolIdMap[tid] \in now.selectedToolIds
         /\ tid \notin now.selectedToolIds

\* C24: after a run that saved several systems, the tools sent with the
\* first one only, every system of the run that selected a tool with a
\* temporary id has that selection in system_tools under the tool's durable
\* id and holds it on the page under the durable id
C24_TempSelectionsKept ==
  (batch.pc = "idle" /\ batch.outcome = "saved" /\ Len(batch.targetIds) > 1)
    => \A j \in 1..Len(batch.targetIds) : C24_Kept(j)

\* the five numbers of a score
C26_Numbers(sc) ==
  [total |-> sc.total, part1 |-> sc.part1, part2 |-> sc.part2, part3 |-> sc.part3,
   part4 |-> sc.part4]

\* C26: once a run has saved its systems, the row of scores of each saved
\* system holds calculateScore of that system against the tool catalogue as
\* the page holds both after the run
C26_StoredIsFinalScore ==
  (batch.pc = "idle" /\ batch.outcome = "saved")
    => \A id \in batch.savedIds :
         \E row \in dbScores :
           /\ row.system_id = id /\ row.task_id = activeTaskId
           /\ C26_Numbers(row)
                = C26_Numbers(calculateScore(systems[findIndex(systems, id)],
                                             asCatalog(tools), rules))

\* C27: after a run that saved systems and was then stopped by the failure
\* of a later one, the page holds for each saved system the updatedAt that
\* the store returned for it, which is the one its row has
C27_SavedVersionHeld ==
  (batch.pc = "idle" /\ batch.outcome \in {"failed", "threw"})
    => \A id \in batch.savedIds :
         /\ systems[findIndex(systems, id)].updatedAt = batch.returned[id]
         /\ batch.returned[id] = Some(dbSystems[id].updated_at)

====
